---- MODULE Spec2Model ----
(***************************************************************************)
(* Model of the WhatsApp ingestion pipeline of the repository              *)
(* (src/src/services/whatsapp-chat.ts): keyword classification, sender     *)
(* authorization, notification fanout, the listing / request handlers,     *)
(* real-time message handling, and the single-flight sweep over all chats. *)
(*                                                                         *)
(* Texts are sequences of one-character strings, so that toLowerCase,      *)
(* includes, trim and substring are computed as the code computes them.    *)
(* An asynchronous function is modelled by the ordered trace of effects it *)
(* performs together with a flag telling whether it ended by throwing.     *)
(***************************************************************************)
EXTENDS Integers, Sequences, FiniteSets, TLC

VARIABLES
    ready,          \* WhatsAppBot.ready
    scanInterval,   \* WhatsAppBot.scanInterval # null (the periodic timer is armed)
    isScanning,     \* WhatsAppBot.isScanning
    sweeps,         \* the invocations of scanAllChats: position of each one
    db,             \* the records persisted by save(), in order
    input,          \* the arguments of the call under study (pure-function specifications)
    last            \* the operation performed by the last step and what it did

vars == <<ready, scanInterval, isScanning, sweeps, db, input, last>>

(***************************************************************************)
(* Bounds of the model.                                                    *)
(***************************************************************************)
MaxSweeps == 2      \* invocations of scanAllChats that may be in flight at once
MaxChats  == 2      \* conversations returned by getChats to a sweep
MaxMsgs   == 2      \* messages returned by fetchMessages for one conversation
MaxDb     == 2      \* records in the store
MaxFail   == 1      \* destinations whose send fails in one broadcast

(***************************************************************************)
(* Text primitives of JavaScript strings.                                  *)
(***************************************************************************)
UpperCase == <<"A","B","C","D","E","F","G","H","I","J","K","L","M",
               "N","O","P","Q","R","S","T","U","V","W","X","Y","Z">>
LowerCase == <<"a","b","c","d","e","f","g","h","i","j","k","l","m",
               "n","o","p","q","r","s","t","u","v","w","x","y","z">>

toLowerCaseChar(c) ==
    IF \E i \in 1..Len(UpperCase) : UpperCase[i] = c
    THEN LowerCase[CHOOSE i \in 1..Len(UpperCase) : UpperCase[i] = c]
    ELSE c

toLowerCase(s) == SubSeq([i \in 1..Len(s) |-> toLowerCaseChar(s[i])], 1, Len(s))

\* String.prototype.includes: k occurs in s as a contiguous substring.
includes(s, k) ==
    \E i \in 0..(Len(s) - Len(k)) : \A j \in 1..Len(k) : s[i + j] = k[j]

\* String.prototype.startsWith
startsWith(s, k) == Len(k) <= Len(s) /\ SubSeq(s, 1, Len(k)) = k

\* String.prototype.substring(0, n)
substring(s, n) == SubSeq(s, 1, IF n < Len(s) THEN n ELSE Len(s))

isSpace(c) == c \in {" ", "\n", "\t"}

\* String.prototype.trim
trim(s) ==
    IF \A i \in 1..Len(s) : isSpace(s[i]) THEN <<>>
    ELSE LET a == CHOOSE i \in 1..Len(s) :
                      ~isSpace(s[i]) /\ \A j \in 1..(i - 1) : isSpace(s[j])
             b == CHOOSE i \in 1..Len(s) :
                      ~isSpace(s[i]) /\ \A j \in (i + 1)..Len(s) : isSpace(s[j])
         IN  SubSeq(s, a, b)

\* number.replace(/^0+/, '')
stripLeadingZeros(s) ==
    IF \A i \in 1..Len(s) : s[i] = "0" THEN <<>>
    ELSE LET a == CHOOSE i \in 1..Len(s) :
                      s[i] # "0" /\ \A j \in 1..(i - 1) : s[j] = "0"
         IN  SubSeq(s, a, Len(s))

\* Array.prototype.some over a sequence of keywords
someIncluded(content, keywords) ==
    \E i \in 1..Len(keywords) : includes(content, keywords[i])

\* F applied to the value of v, v being evaluated once.
Let(v, F(_)) == CHOOSE x \in {F(a) : a \in {v}} : TRUE

(***************************************************************************)
(* Regular expressions over texts, and JavaScript numbers as far as prices *)
(* go: NaN, or a count of hundredths.                                      *)
(***************************************************************************)
NaN == [nan |-> TRUE, v |-> 0]
Number(v) == [nan |-> FALSE, v |-> v]

Digits == <<"0","1","2","3","4","5","6","7","8","9">>
nairaSign == "U+20A6"

\* s[i], or "" outside the text
charAt(s, i) == IF i \in 1..Len(s) THEN s[i] ELSE ""

\* \d
isDigit(c) == c \in {"0","1","2","3","4","5","6","7","8","9"}

\* [\d,]
isDigitOrComma(c) == c \in {"0","1","2","3","4","5","6","7","8","9",","}

\* \w
isWordChar(c) ==
    c \in {"0","1","2","3","4","5","6","7","8","9","_",
           "a","b","c","d","e","f","g","h","i","j","k","l","m",
           "n","o","p","q","r","s","t","u","v","w","x","y","z",
           "A","B","C","D","E","F","G","H","I","J","K","L","M",
           "N","O","P","Q","R","S","T","U","V","W","X","Y","Z"}

\* \b between positions i and i + 1
wordBoundary(s, i) == isWordChar(charAt(s, i)) # isWordChar(charAt(s, i + 1))

\* the literal k matches s at position i
matchesAt(s, i, k) ==
    i + Len(k) - 1 <= Len(s) /\ \A j \in 1..Len(k) : s[i + j - 1] = k[j]

\* \s* from position i: the first position that holds no white space
skipSpaces(s, i) ==
    CHOOSE j \in i..(Len(s) + 1) :
        /\ \A k \in i..(j - 1) : isSpace(s[k])
        /\ ~isSpace(charAt(s, j))

\* [\d,]+ from position i, greedy: the last position of the run (i - 1 when empty)
runEnd(s, i) ==
    CHOOSE j \in (i - 1)..Len(s) :
        /\ \A k \in i..j : isDigitOrComma(s[k])
        /\ ~isDigitOrComma(charAt(s, j + 1))

\* (?:\.\d{2}) right after position n
hasCents(s, n) ==
    charAt(s, n + 1) = "." /\ isDigit(charAt(s, n + 2)) /\ isDigit(charAt(s, n + 3))

\* \s*(?:naira|ngn) matches right after position e
currencyFollows(lower, e) ==
    LET q == skipSpaces(lower, e + 1)
    IN  matchesAt(lower, q, <<"n","a","i","r","a">>) \/ matchesAt(lower, q, <<"n","g","n">>)

\* What a pattern requires right after the number ending at position e:
\* "currency" \s*(?:naira|ngn), "boundary" \b, "nothing" the end of the pattern.
followedBy(s, e, what) ==
    IF what = "currency" THEN currencyFollows(s, e)
    ELSE IF what = "boundary" THEN wordBoundary(s, e)
    ELSE TRUE

\* the greatest position of a set of positions, 0 when empty
greatest(S) == IF S = {} THEN 0 ELSE CHOOSE m \in S : \A k \in S : k <= m

\* ([\d,]+(?:\.\d{2})?) with its run ending at position n, followed by what is
\* required: the last position of the capture, the decimals being tried
\* before their absence; 0 when neither is followed by what is required.
endAt(s, n, what) ==
    IF hasCents(s, n) /\ followedBy(s, n + 3, what) THEN n + 3
    ELSE IF followedBy(s, n, what) THEN n
    ELSE 0

\* ([\d,]+(?:\.\d{2})?) from position i, followed by what is required: the last
\* position of the capture that backtracking settles on, 0 when there is none.
\* The run is tried from its longest to its shortest prefix.
numberEnd(s, i, what) ==
    Let(greatest({n \in i..runEnd(s, i) : endAt(s, n, what) # 0}),
        LAMBDA n : IF n = 0 THEN 0 ELSE endAt(s, n, what))

\* the leftmost position of a set of positions, 0 when empty
leftmost(S) == IF S = {} THEN 0 ELSE CHOOSE i \in S : \A j \in S : i <= j

\* cleanNumber: replace(/,/g, '')
removeCommas(s) == SelectSeq(s, LAMBDA c : c # ",")

RECURSIVE intValue(_)
intValue(s) ==
    IF s = <<>> THEN 0
    ELSE 10 * intValue(SubSeq(s, 1, Len(s) - 1))
         + (CHOOSE d \in 0..9 : Digits[d + 1] = s[Len(s)])

\* the last position of the leading digits of s
digitsEnd(s) ==
    CHOOSE j \in 0..Len(s) :
        /\ \A k \in 1..j : isDigit(s[k])
        /\ ~isDigit(charAt(s, j + 1))

\* the hundredths that the decimals d1 d2 stand for
hundredths(d1, d2) ==
    IF ~isDigit(d1) THEN 0
    ELSE 10 * intValue(<<d1>>) + (IF isDigit(d2) THEN intValue(<<d2>>) ELSE 0)

\* parseFloat of a text of digits with at most two decimals (what the price
\* patterns capture once the commas are removed): n leading digits, then the
\* decimals d1 d2 when a point follows.
parseFloatOf(s, n, d1, d2) ==
    IF n = 0 /\ ~isDigit(d1) THEN NaN
    ELSE Number(100 * intValue(SubSeq(s, 1, n)) + hundredths(d1, d2))

parseFloat(s) ==
    Let(digitsEnd(s),
        LAMBDA n : parseFloatOf(s, n,
                       IF charAt(s, n + 1) = "." THEN charAt(s, n + 2) ELSE "",
                       charAt(s, n + 3)))

(***************************************************************************)
(* Static configuration of WhatsAppBot.                                    *)
(***************************************************************************)
allowedNumbers == <<
    <<"2","3","4","8","1","3","6","2","1","2","8","7","7">>,
    <<"2","3","4","9","0","6","9","9","4","6","5","7","9">>,
    <<"2","3","4","9","0","6","1","1","0","8","8","9","4">> >>

allowedGroups == <<
    <<"P","r","o","p","O","u","t"," ","A","g","e","n","t","s"," ","G","r","o","u","p">>,
    <<"P","r","o","p","O","u","t">>,
    <<"C","w","g","Q","P","M","P","7","5","l","y","I","I","0","p","w","t","t","C","f","6","f">> >>

MAX_MESSAGE_LENGTH == 16000
MAX_IMAGE_SIZE == 5242880
locationsCap == 10          \* .slice(0, 10)
locationLengthCap == 100    \* .substring(0, 100)

truncationMarker == <<".",".","."," ","(","t","r","u","n","c","a","t","e","d",")">>

\* (?:price|cost|rent) at position i of the lower-cased text: its length, 0
\* when none of the words is there
priceWordLength(lower, i) ==
    IF matchesAt(lower, i, <<"p","r","i","c","e">>) THEN 5
    ELSE IF matchesAt(lower, i, <<"c","o","s","t">>) THEN 4
    ELSE IF matchesAt(lower, i, <<"r","e","n","t">>) THEN 4
    ELSE 0

\* :? from position p
skipColon(lower, p) == IF charAt(lower, p) = ":" THEN p + 1 ELSE p

\* (?:NAIRA|NGN)? from position p
skipCurrency(lower, p) ==
    IF charAt(lower, p) = nairaSign THEN p + 1
    ELSE IF matchesAt(lower, p, <<"n","g","n">>) THEN p + 3
    ELSE p

\* After (?:price|cost|rent):?\s*(?:NAIRA|NGN)?\s* matched from position i of
\* the lower-cased text: the position where the number must start (0: no match).
afterPriceWord(lower, i) ==
    Let(priceWordLength(lower, i),
        LAMBDA n : IF n = 0 THEN 0
                   ELSE skipSpaces(lower,
                            skipCurrency(lower,
                                skipSpaces(lower, skipColon(lower, i + n)))))

\* After (?:NAIRA|NGN)\s* matched from position i (0: no match).
afterCurrency(lower, i) ==
    IF charAt(lower, i) = nairaSign THEN skipSpaces(lower, i + 1)
    ELSE IF matchesAt(lower, i, <<"n","g","n">>) THEN skipSpaces(lower, i + 3)
    ELSE 0

\* What the k-th pattern of extractPrice requires right after its number.
requiredAfter(k) ==
    IF k = 3 THEN "currency" ELSE IF k = 4 THEN "boundary" ELSE "nothing"

\* The characters a match of the k-th pattern can start with.
firstChars(k) ==
    IF k = 1 THEN {"p", "c", "r"}
    ELSE IF k = 2 THEN {nairaSign, "n"}
    ELSE {"0","1","2","3","4","5","6","7","8","9",","}

\* For a match of the k-th pattern that starts at position i: the position
\* where its number starts (0: no match).
numberStart(k, lower, i) ==
    IF k = 1 THEN afterPriceWord(lower, i)
    ELSE IF k = 2 THEN afterCurrency(lower, i)
    ELSE IF k = 3 THEN i
    ELSE IF isDigitOrComma(lower[i]) /\ wordBoundary(lower, i - 1) THEN i
    ELSE 0

\* The first and the last position of the capture of the k-th pattern matched
\* from position i; the last position is 0 when the pattern does not match.
captureAt(k, lower, i) ==
    Let(numberStart(k, lower, i),
        LAMBDA f : IF f = 0 \/ ~isDigitOrComma(charAt(lower, f)) THEN <<0, 0>>
                   ELSE <<f, numberEnd(lower, f, requiredAfter(k))>>)

\* the leftmost position of the text where the k-th pattern matches (0: none)
leftmostMatch(k, lower) ==
    leftmost({i \in 1..Len(lower) :
                 lower[i] \in firstChars(k) /\ captureAt(k, lower, i)[2] # 0})

\* text.match(pattern)[1] for the k-th pattern of extractPrice; <<>> when the
\* pattern does not match.
priceCapture(k, text) ==
    Let(toLowerCase(text), LAMBDA lower :
    Let(leftmostMatch(k, lower), LAMBDA i0 :
        IF i0 = 0 THEN <<>>
        ELSE Let(captureAt(k, lower, i0), LAMBDA c : SubSeq(text, c[1], c[2]))))

\* for (const pattern of patterns) from the k-th pattern on: the first capture
\* that parses to a number above 0, and 0 when there is none.
RECURSIVE extractPriceFrom(_, _)
extractPriceFrom(k, text) ==
    IF k > 4 THEN Number(0)
    ELSE Let(parseFloat(removeCommas(priceCapture(k, text))),
             LAMBDA parsed : IF ~parsed.nan /\ parsed.v > 0 THEN parsed
                             ELSE extractPriceFrom(k + 1, text))

\* WhatsAppBot.extractPrice(text)
extractPrice(text) == extractPriceFrom(1, text)

locationKeywords == <<
    <<"i","n">>, <<"a","t">>, <<"n","e","a","r">>,
    <<"a","r","o","u","n","d">>, <<"l","o","c","a","t","e","d">> >>

unknownLocation == <<"U","n","k","n","o","w","n"," ","L","o","c","a","t","i","o","n">>

\* The last position of [^,.]+ from position q, greedy (q - 1 when empty)
plainEnd(s, q) ==
    CHOOSE j \in (q - 1)..Len(s) :
        /\ \A k \in q..j : s[k] \notin {",", "."}
        /\ charAt(s, j + 1) \in {",", ".", ""}

\* keyword\s+([^,.]+) from position i of the text: the first and last position
\* of the capture, <<0, 0>> when the pattern does not match there.  \s+ takes
\* all the white space; when nothing capturable follows it gives one back,
\* which then is the whole capture.
locationCapture(text, lower, keyword, i) ==
    IF ~matchesAt(lower, i, keyword) THEN <<0, 0>>
    ELSE LET p == i + Len(keyword)
             q == skipSpaces(text, p)
         IN  IF q = p THEN <<0, 0>>
             ELSE IF plainEnd(text, q) >= q THEN <<q, plainEnd(text, q)>>
             ELSE IF q - p >= 2 THEN <<q - 1, q - 1>>
             ELSE <<0, 0>>

\* text.match(pattern) for one keyword: the capture of the leftmost match
locationMatch(text, keyword) ==
    LET lower == toLowerCase(text)
        i0 == leftmost({i \in 1..Len(text) :
                           /\ lower[i] = keyword[1]
                           /\ locationCapture(text, lower, keyword, i)[1] # 0})
    IN  IF i0 = 0 THEN <<0, 0>> ELSE locationCapture(text, lower, keyword, i0)

\* WhatsAppBot.extractLocation(text)
extractLocation(text) ==
    LET found == {k \in 1..Len(locationKeywords) :
                     locationMatch(text, locationKeywords[k])[1] # 0}
    IN  IF found = {} THEN unknownLocation
        ELSE LET m == locationMatch(text, locationKeywords[leftmost(found)])
             IN  trim(SubSeq(text, m[1], m[2]))

\* FacebookScraper.extractPrice(priceStr)
scraperExtractPrice(priceStr) ==
    LET i0 == leftmost({i \in 1..Len(priceStr) : isDigitOrComma(priceStr[i])})
    IN  IF i0 = 0 THEN Number(0)
        ELSE parseFloat(removeCommas(
                 SubSeq(priceStr, i0, numberEnd(priceStr, i0, "nothing"))))

\* The listeners the application registers on the bot: 'status' and 'progress',
\* and none for 'error'.
Listeners == {"status", "progress"}

listingKeywords == <<
    <<"f","o","r"," ","r","e","n","t">>,
    <<"f","o","r"," ","s","a","l","e">>,
    <<"a","v","a","i","l","a","b","l","e">>,
    <<"p","r","o","p","e","r","t","y">>,
    <<"a","p","a","r","t","m","e","n","t">>,
    <<"h","o","u","s","e">> >>

requestKeywords == <<
    <<"l","o","o","k","i","n","g"," ","f","o","r">>,
    <<"w","a","n","t","e","d">>,
    <<"n","e","e","d">>,
    <<"s","e","a","r","c","h","i","n","g"," ","f","o","r">>,
    <<"r","e","q","u","e","s","t">> >>

(***************************************************************************)
(* TextClassifier, ContactAuthorizer, truncation.                          *)
(***************************************************************************)
truncateMessageFromTheLimit(text) ==
    IF Len(text) >= MAX_MESSAGE_LENGTH
    THEN SubSeq(text, 1, MAX_MESSAGE_LENGTH) \o truncationMarker
    ELSE text

\* WhatsAppBot.truncateMessage(text)
truncateMessage(text) ==
    IF Len(text) > MAX_MESSAGE_LENGTH
    THEN SubSeq(text, 1, MAX_MESSAGE_LENGTH) \o truncationMarker
    ELSE text

isPropertyListingNoHouse(content) ==
    someIncluded(content, SubSeq(listingKeywords, 1, Len(listingKeywords) - 1))
isPropertyListing(content) == someIncluded(content, listingKeywords)

isPropertyRequestAnyText(content) == TRUE

isPropertyRequest(content) == someIncluded(content, requestKeywords)

isAllowedNumber(number) ==
    LET prefix == <<"2","3","4">>
        standardizedNumber ==
            IF startsWith(number, prefix) THEN number
            ELSE prefix \o stripLeadingZeros(number)
    IN  \E i \in 1..Len(allowedNumbers) : allowedNumbers[i] = standardizedNumber

\* A chat is [isGroup, name, id]; id stands for chat.id._serialized.
isAllowedGroup(chat) ==
    IF ~chat.isGroup THEN FALSE
    ELSE LET groupId   == chat.id
             groupName == trim(toLowerCase(chat.name))
         IN  \E i \in 1..Len(allowedGroups) :
                 \/ includes(groupName, toLowerCase(allowedGroups[i]))
                 \/ includes(groupId, allowedGroups[i])

(***************************************************************************)
(* Effects.  An operation is modelled by r = [trace, threw]: the effects   *)
(* it performed, in order, and whether it ended by throwing.               *)
(*   [e |-> kind, a |-> tag or destination, b |-> payload]                 *)
(***************************************************************************)
Eff(e, a, b) == [e |-> e, a |-> a, b |-> b]
Done(trace)  == [trace |-> trace, threw |-> FALSE]
Thrown(trace) == [trace |-> trace, threw |-> TRUE]

Append2(a, b) == [trace |-> a.trace \o b.trace, threw |-> b.threw]

\* r1 ; r2 : r2 runs only if r1 did not throw.
Then(r1, r2) ==
    Let(r1, LAMBDA a : IF a.threw THEN a ELSE Let(r2, LAMBDA b : Append2(a, b)))

\* try { r } catch { h }
TryCatch(r, h) ==
    Let(r, LAMBDA a : IF a.threw THEN Let(h, LAMBDA b : Append2(a, b)) ELSE a)

\* EventEmitter.emit: emitting 'error' with no listener registered for it throws.
emit(type, tag) ==
    [trace |-> <<Eff("emit", type, tag)>>,
     threw |-> (type = "error" /\ "error" \notin Listeners)]

\* console.error
log(tag) == Done(<<Eff("log", tag, "")>>)

\* console.warn
warn(tag) == Done(<<Eff("warn", tag, "")>>)

(***************************************************************************)
(* NotificationFanout.  fenv is what the chat transport does during one    *)
(* broadcast: [getChatsOk, chats, failTo], failTo the destinations whose   *)
(* send fails.                                                             *)
(***************************************************************************)
cUs == <<"@","c",".","u","s">>

\* WhatsAppBot.sendMessage(to, message)
sendMessage(to, message, fenv) ==
    IF to \notin fenv.failTo
    THEN Then(Done(<<Eff("send", to, message)>>), emit("status", "Message sent"))
    ELSE Thrown(<<Eff("sendFail", to, message), Eff("log", "Error sending message", "")>>
                \o emit("error", "send").trace)

notifyNumberUnguarded(number, message, fenv) ==
    sendMessage(number \o cUs, message, fenv)

\* One iteration of the loop over allowedNumbers.
notifyNumber(number, message, fenv) ==
    TryCatch(sendMessage(number \o cUs, message, fenv),
             log("Failed to notify number"))

RECURSIVE notifyNumbers(_, _, _)
notifyNumbers(i, message, fenv) ==
    IF i > Len(allowedNumbers) THEN Done(<<>>)
    ELSE Then(notifyNumber(allowedNumbers[i], message, fenv),
              notifyNumbers(i + 1, message, fenv))

\* The "direct name check" of the loop over the groups.
matchedName(group) ==
    LET groupName == trim(toLowerCase(group.name))
    IN  \E i \in 1..Len(allowedGroups) :
            includes(groupName, toLowerCase(allowedGroups[i]))

\* One iteration of the loop over the groups.
notifyGroup(group, message, fenv) ==
    IF matchedName(group)
    THEN IF group.id \notin fenv.failTo
         THEN Done(<<Eff("send", group.id, message)>>)
         ELSE Done(<<Eff("sendFail", group.id, message),
                     Eff("log", "Failed to send to group", "")>>)
    ELSE Done(<<>>)

RECURSIVE notifyGroups(_, _, _, _)
notifyGroups(i, groups, message, fenv) ==
    IF i > Len(groups) THEN Done(<<>>)
    ELSE Then(notifyGroup(groups[i], message, fenv),
              notifyGroups(i + 1, groups, message, fenv))

isGroupChat(chat) == chat.isGroup

\* client.getChats()
getChats(fenv) ==
    IF fenv.getChatsOk THEN Done(<<Eff("getChats", "ok", "")>>)
    ELSE Thrown(<<Eff("getChats", "fail", "")>>)

notifyAllowedContactsAsGiven(message, fenv) ==
    LET groups == SelectSeq(fenv.chats, isGroupChat)
    IN  TryCatch(
            Then(notifyNumbers(1, message, fenv),
                 Then(getChats(fenv),
                      notifyGroups(1, groups, message, fenv))),
            Then(log("Error in notifyAllowedContacts"),
                 emit("error", "Failed to send notifications")))

\* WhatsAppBot.notifyAllowedContacts(message)
notifyAllowedContacts(message, fenv) ==
    LET truncatedMsg == truncateMessage(message)
        groups       == SelectSeq(fenv.chats, isGroupChat)
    IN  TryCatch(
            Then(notifyNumbers(1, truncatedMsg, fenv),
                 Then(getChats(fenv),
                      notifyGroups(1, groups, truncatedMsg, fenv))),
            Then(log("Error in notifyAllowedContacts"),
                 emit("error", "Failed to send notifications")))

\* What a trace shows.
sendsOf(trace)    == SelectSeq(trace, LAMBDA x : x.e = "send")
attemptsOf(trace) == SelectSeq(trace, LAMBDA x : x.e \in {"send", "sendFail"})
destsOf(effects)  == {effects[i].a : i \in 1..Len(effects)}

(***************************************************************************)
(* Semantic-analysis collaborator (AIService) and storage.                 *)
(* env is what the collaborators do during the handling of one message:    *)
(*   ai    : "ok" | "malformed" | "fail"   the completion call of the      *)
(*           handler (fail = the call itself rejects)                      *)
(*   ai2   : the same for the second analyzePropertyRequest call made by   *)
(*           handleMessage for the acknowledgment                          *)
(*   save  : "ok" | "fail"                 document.save()                 *)
(*   reply : "ok" | "fail"                 message.reply()                 *)
(*   fenv  : the transport during the broadcast                            *)
(***************************************************************************)
validAnalysis ==
    [type |-> "rent", propertyType |-> <<"a","p","a","r","t","m","e","n","t">>,
     maxPrice |-> 100, preferredLocations |-> << <<"l","e","k","k","i">> >>,
     additionalRequirements |-> <<"p","o","o","l">>, urgency |-> "high"]

\* The default structure, returned when the content of the completion does not
\* parse; its additionalRequirements is the text that was analysed.
defaultAnalysis ==
    [type |-> "buy", propertyType |-> <<"u","n","k","n","o","w","n">>,
     maxPrice |-> 0, preferredLocations |-> << <<"u","n","k","n","o","w","n">> >>,
     additionalRequirements |-> <<>>, urgency |-> "medium"]

\* What analyzePropertyRequest(text) returns when the completion call resolves.
\* The content may be any JSON document of the requested shape: "negative"
\* and "oversized" are documents that parse, with a maxPrice below zero, and
\* with locationsCap + 1 preferred locations, the first of locationLengthCap + 1
\* characters.
analysisOf(text, outcome) ==
    IF outcome = "malformed"
    THEN [defaultAnalysis EXCEPT !.additionalRequirements = text]
    ELSE IF outcome = "negative"
    THEN [validAnalysis EXCEPT !.maxPrice = -1]
    ELSE IF outcome = "oversized"
    THEN [validAnalysis EXCEPT !.preferredLocations =
             [i \in 1..(locationsCap + 1) |->
                 IF i = 1 THEN [j \in 1..(locationLengthCap + 1) |-> "a"]
                 ELSE <<"l","e","k","k","i">>]]
    ELSE validAnalysis

\* AIService.analyzeProperty(text): the completion call is not guarded.
analyzeProperty(text, outcome) ==
    IF outcome = "fail" THEN Thrown(<<Eff("ai", "analyzeProperty", "fail")>>)
    ELSE Done(<<Eff("ai", "analyzeProperty", "analysis")>>)

\* AIService.analyzePropertyRequest(text): the completion call is outside the
\* try block; only the parsing of its content falls back to the default.
analyzePropertyRequest(text, outcome) ==
    IF outcome = "fail" THEN Thrown(<<Eff("ai", "analyzePropertyRequest", "fail")>>)
    ELSE Done(<<Eff("ai", "analyzePropertyRequest", analysisOf(text, outcome))>>)

\* Validation of a document against its schema: a Number path does not take
\* NaN, a required String path does not take the empty string, requestType is
\* one of the enumerated values.
validates(record) ==
    /\ record.contact # <<>>
    /\ IF record.kind = "listing"
       THEN ~record.price.nan /\ record.location # <<>> /\ record.description # <<>>
       ELSE /\ record.requestType \in {"rent", "buy"}
            /\ record.requirements.propertyType # <<>>

\* new Model(data).save()
save(record, outcome) ==
    Let(record, LAMBDA doc :
        IF outcome = "ok" /\ validates(doc) THEN Done(<<Eff("save", doc.kind, doc)>>)
        ELSE Thrown(<<Eff("saveFail", doc.kind, doc)>>))

replyDeliveredAndRejected(kind, shown, outcome) ==
    IF outcome = "ok" \/ (outcome = "acknowledgmentFails" /\ kind = "apology")
    THEN Done(<<Eff("reply", kind, shown)>>)
    ELSE Thrown(<<Eff("reply", kind, shown)>>)

\* message.reply(text): kind names the fixed wording, shown the values
\* interpolated into it.  outcome tells which replies the transport rejects:
\* none ("ok"), all of them ("fail"), or all but the apology
\* ("acknowledgmentFails"); a rejected reply does not reach the sender.
reply(kind, shown, outcome) ==
    IF outcome = "ok" \/ (outcome = "acknowledgmentFails" /\ kind = "apology")
    THEN Done(<<Eff("reply", kind, shown)>>)
    ELSE Thrown(<<Eff("replyFail", kind, shown)>>)

(***************************************************************************)
(* IngestionPipeline.  A message is [body, contact, chat, old]; contact is *)
(* [user, pushname]; old tells that the message is older than 24 hours     *)
(* when the sweep examines it.                                             *)
(***************************************************************************)
unknownName == <<"U","n","k","n","o","w","n">>

\* contact.pushname || contact.number || 'Unknown'
displayName(contact) ==
    IF contact.pushname # <<>> THEN contact.pushname
    ELSE IF contact.user # <<>> THEN contact.user ELSE unknownName

listingNotification(message) ==
    <<"N","e","w"," ","P","r","o","p","e","r","t","y"," ","L","i","s","t","i","n","g",
      " ","f","r","o","m"," ">> \o displayName(message.contact) \o <<":", "\n">>
    \o truncateMessage(message.body)

requestNotification(message) ==
    <<"N","e","w"," ","P","r","o","p","e","r","t","y"," ","R","e","q","u","e","s","t",
      " ","f","r","o","m"," ">> \o displayName(message.contact) \o <<":", "\n">>
    \o truncateMessage(message.body)

\* What the transport holds as the attachment of a message:
\*   has  message.hasMedia
\*   ok   downloadMedia() resolves
\*   size the number of bytes of the attachment (decoded)
noMedia == [has |-> FALSE, ok |-> TRUE, size |-> 0]

\* The length of media.data, the base64 text of an attachment of n bytes.
base64Length(n) == 4 * ((n + 2) \div 3)

\* Buffer.from(media.data).length: the bytes of the base64 text itself.
imageSize(media) == base64Length(media.size)

\* images of the listing: the attachment (named by its size) when it is kept.
imagesOf(media) ==
    IF media.has /\ media.ok /\ media.size > 0 /\ imageSize(media) <= MAX_IMAGE_SIZE
    THEN <<media.size>> ELSE <<>>

\* if (message.hasMedia) { try { downloadMedia ... } catch { log } }
downloadMedia(media) ==
    IF ~media.has THEN Done(<<>>)
    ELSE IF ~media.ok
    THEN TryCatch(Thrown(<<Eff("media", "fail", 0)>>), log("Error downloading media"))
    ELSE IF imagesOf(media) = <<>> /\ media.size > 0
    THEN Then(Done(<<Eff("media", "ok", media.size)>>), warn("Image skipped: too large"))
    ELSE Done(<<Eff("media", "ok", media.size)>>)

listingRecord(message, env) ==
    [kind        |-> "listing",
     source      |-> "whatsapp",
     description |-> truncateMessage(message.body),
     contact     |-> message.contact.user,
     price       |-> extractPrice(truncateMessage(message.body)),
     location    |-> extractLocation(truncateMessage(message.body)),
     images      |-> imagesOf(env.media),
     analysis    |-> IF env.ai = "fail" THEN "AI analysis failed" ELSE "analysis",
     status      |-> "none"]

\* if (extractedPrice === 0) console.warn(...)
warnNoPrice(text) ==
    IF extractPrice(text) = Number(0)
    THEN warn("Could not extract valid price from message") ELSE Done(<<>>)

\* requirements of the PropertyRequest built from an analysis.
requirementsOf(analysis) ==
    [propertyType |-> substring(analysis.propertyType, locationLengthCap),
     maxPrice |-> IF analysis.maxPrice = 0 THEN 0 ELSE analysis.maxPrice,
     preferredLocations |->
        substring([i \in 1..Len(analysis.preferredLocations) |->
                      substring(analysis.preferredLocations[i], locationLengthCap)],
                  locationsCap),
     additionalRequirements |-> truncateMessage(analysis.additionalRequirements)]

requestRecordFromAcknowledgment(message, env) ==
    LET analysis == analysisOf(truncateMessage(message.body), env.ai2)
    IN  [kind         |-> "request",
         source       |-> "whatsapp",
         description  |-> truncateMessage(message.body),
         contact      |-> message.contact.user,
         analysis     |-> analysis,
         requestType  |-> analysis.type,
         requirements |-> requirementsOf(analysis),
         urgency      |-> analysis.urgency,
         status       |-> "active"]

requestRecord(message, env) ==
    LET analysis == analysisOf(truncateMessage(message.body), env.ai)
    IN  [kind         |-> "request",
         source       |-> "whatsapp",
         description  |-> truncateMessage(message.body),
         contact      |-> message.contact.user,
         analysis     |-> analysis,
         requestType  |-> analysis.type,
         requirements |-> requirementsOf(analysis),
         urgency      |-> analysis.urgency,
         status       |-> "active"]

analyzeListingUnguarded(text, outcome) == analyzeProperty(text, outcome)

\* try { analysis = await analyzeProperty(...) } catch { analysis = 'AI analysis failed' }
analyzeListing(text, outcome) ==
    TryCatch(analyzeProperty(text, outcome), log("AI analysis failed"))

handlePropertyListingBroadcastingFirst(message, env) ==
    TryCatch(
        Then(emit("status", "Processing property listing..."),
        Then(warnNoPrice(truncateMessage(message.body)),
        Then(analyzeListing(truncateMessage(message.body), env.ai),
        Then(downloadMedia(env.media),
        Then(notifyAllowedContacts(listingNotification(message), env.fenv),
        Then(save(listingRecord(message, env), env.save),
             emit("status", "Property listing saved successfully"))))))),
        Then(log("Error in handlePropertyListing"),
        Then(emit("error", "Failed to process property listing"),
             Thrown(<<>>))))

\* WhatsAppBot.handlePropertyListing(message, contact)
handlePropertyListing(message, env) ==
    TryCatch(
        Then(emit("status", "Processing property listing..."),
        Then(warnNoPrice(truncateMessage(message.body)),
        Then(analyzeListing(truncateMessage(message.body), env.ai),
        Then(downloadMedia(env.media),
        Then(save(listingRecord(message, env), env.save),
        Then(emit("status", "Property listing saved successfully"),
             notifyAllowedContacts(listingNotification(message), env.fenv))))))),
        Then(log("Error in handlePropertyListing"),
        Then(emit("error", "Failed to process property listing"),
             Thrown(<<>>))))

\* WhatsAppBot.handlePropertyRequest(message, contact)
handlePropertyRequest(message, env) ==
    TryCatch(
        Then(emit("status", "Processing property request..."),
        Then(analyzePropertyRequest(truncateMessage(message.body), env.ai),
        Then(save(requestRecord(message, env), env.save),
        Then(emit("status", "Property request saved successfully"),
             notifyAllowedContacts(requestNotification(message), env.fenv))))),
        Then(log("Error in handlePropertyRequest"),
        Then(emit("error", "Failed to process property request"),
             Thrown(<<>>))))

\* this.isAllowedNumber(contact.id.user) || this.isAllowedGroup(chat)
isAuthorized(message) ==
    isAllowedNumber(message.contact.user) \/ isAllowedGroup(message.chat)

\* The fields of an analysis that the acknowledgment of a request shows:
\* type, propertyType, preferredLocations, additionalRequirements, urgency.
acknowledged(analysis) ==
    [type |-> analysis.type, propertyType |-> analysis.propertyType,
     preferredLocations |-> analysis.preferredLocations,
     additionalRequirements |-> analysis.additionalRequirements,
     urgency |-> analysis.urgency]

\* The try block of handleMessage.
dispatch(message, env) ==
    LET messageContent == toLowerCase(message.body)
    IN  IF isPropertyListing(messageContent)
        THEN Then(handlePropertyListing(message, env),
                  IF isAuthorized(message)
                  THEN reply("listing saved", "", env.reply) ELSE Done(<<>>))
        ELSE IF isPropertyRequest(messageContent)
        THEN Then(handlePropertyRequest(message, env),
                  IF isAuthorized(message)
                  THEN Then(analyzePropertyRequest(message.body, env.ai2),
                            reply("request recorded",
                                  acknowledged(analysisOf(message.body, env.ai2)),
                                  env.reply))
                  ELSE Done(<<>>))
        ELSE Done(<<>>)

apologizeToAnyone(message, env) ==
    Then(log("Error handling message"), reply("apology", "", env.reply))

\* The catch block of handleMessage.
apologize(message, env) ==
    Then(log("Error handling message"),
         IF isAuthorized(message) THEN reply("apology", "", env.reply) ELSE Done(<<>>))

handleMessageAuthorizedOnly(message, env) ==
    IF isAuthorized(message)
    THEN TryCatch(dispatch(message, env), apologize(message, env))
    ELSE Done(<<>>)

\* WhatsAppBot.handleMessage(message): the 'message' event of the transport.
handleMessage(message, env) ==
    TryCatch(dispatch(message, env), apologize(message, env))

scanMessageReplying(message, env) ==
    IF message.old THEN Done(<<>>) ELSE handleMessage(message, env)

\* The body of the loop over the fetched messages in scanChat.
scanMessage(message, env) ==
    IF message.old THEN Done(<<>>)
    ELSE LET messageContent == toLowerCase(message.body)
         IN  IF isPropertyListing(messageContent)
             THEN handlePropertyListing(message, env)
             ELSE IF isPropertyRequest(messageContent)
             THEN handlePropertyRequest(message, env)
             ELSE Done(<<>>)

(***************************************************************************)
(* FacebookScraper.  A scraped listing is [title, description, price,      *)
(* location, contact], price being the text of the price element; a        *)
(* scraped post is [content, contact].  env.page tells whether the login   *)
(* and the navigation succeed.                                             *)
(***************************************************************************)
\* The listeners the application registers on the scraper.
scraperListeners == {"status", "progress", "error"}

scraperEmit(type, tag) ==
    [trace |-> <<Eff("scraperEmit", type, tag)>>,
     threw |-> (type = "error" /\ "error" \notin scraperListeners)]

\* login(), page.goto(...), page.evaluate(...): what the page holds
evaluate(found, outcome) ==
    IF outcome = "ok" THEN Done(<<Eff("page", "found", found)>>)
    ELSE Thrown(<<Eff("page", "fail", <<>>)>>)

newListingMessage(listing) ==
    <<"N","e","w"," ","P","r","o","p","e","r","t","y"," ","f","r","o","m"," ",
      "F","a","c","e","b","o","o","k","!","\n">>
    \o listing.title \o <<"\n">> \o listing.price \o <<"\n">> \o listing.location

\* new PropertyListing({...}) in scrapePropertyListings
scrapedListingRecord(listing, env) ==
    [kind        |-> "listing",
     source      |-> "facebook",
     description |-> listing.description,
     contact     |-> listing.contact,
     price       |-> scraperExtractPrice(listing.price),
     location    |-> listing.location,
     images      |-> <<>>,
     analysis    |-> "analysis",
     status      |-> "none"]

\* The body of the loop over the scraped listings.
processListing(listing, env) ==
    TryCatch(
        Then(analyzeProperty(listing.description, env.ai),
        Then(save(scrapedListingRecord(listing, env), env.save),
        Then(notifyAllowedContacts(newListingMessage(listing), env.fenv),
             scraperEmit("status", "Processed listing")))),
        log("Error processing listing"))

RECURSIVE processListings(_, _, _)
processListings(listings, i, env) ==
    IF i > Len(listings) THEN Done(<<>>)
    ELSE Then(processListing(listings[i], env), processListings(listings, i + 1, env))

\* FacebookScraper.scrapePropertyListings(searchTerm)
scrapePropertyListings(listings, env) ==
    TryCatch(
        Then(scraperEmit("status", "Starting property listings search"),
        Then(evaluate(listings, env.page),
        Then(scraperEmit("status", "Found listings. Processing..."),
        Then(processListings(listings, 1, env),
             scraperEmit("status", "Scraping completed successfully"))))),
        Then(scraperEmit("error", "error"),
        Then(log("Error scraping Facebook"),
             Thrown(<<>>))))

scrapedRequestRecordFulfilled(request, env) ==
    LET analysis == analysisOf(request.content, env.ai)
    IN  [kind         |-> "request",
         source       |-> "facebook",
         description  |-> <<>>,
         contact      |-> request.contact,
         analysis     |-> analysis,
         requestType  |-> analysis.type,
         requirements |->
            [propertyType |-> analysis.propertyType,
             maxPrice |-> IF analysis.maxPrice = 0 THEN 0 ELSE analysis.maxPrice,
             preferredLocations |-> analysis.preferredLocations,
             additionalRequirements |-> analysis.additionalRequirements],
         urgency      |-> "none",
         status       |-> "fulfilled"]

\* new PropertyRequest({...}) in scrapePropertyRequests
scrapedRequestRecord(request, env) ==
    LET analysis == analysisOf(request.content, env.ai)
    IN  [kind         |-> "request",
         source       |-> "facebook",
         description  |-> <<>>,
         contact      |-> request.contact,
         analysis     |-> analysis,
         requestType  |-> analysis.type,
         requirements |->
            [propertyType |-> analysis.propertyType,
             maxPrice |-> IF analysis.maxPrice = 0 THEN 0 ELSE analysis.maxPrice,
             preferredLocations |-> analysis.preferredLocations,
             additionalRequirements |-> analysis.additionalRequirements],
         urgency      |-> "none",
         status       |-> "active"]

\* The body of the loop over the scraped posts: nothing is caught here.
processRequest(request, env) ==
    Then(analyzePropertyRequest(request.content, env.ai),
         save(scrapedRequestRecord(request, env), env.save))

RECURSIVE processRequests(_, _, _)
processRequests(requests, i, env) ==
    IF i > Len(requests) THEN Done(<<>>)
    ELSE Then(processRequest(requests[i], env), processRequests(requests, i + 1, env))

\* FacebookScraper.scrapePropertyRequests(searchTerm)
scrapePropertyRequests(requests, env) ==
    TryCatch(
        Then(scraperEmit("status", "Starting property requests search"),
        Then(evaluate(requests, env.page),
             processRequests(requests, 1, env))),
        Then(scraperEmit("error", "error"),
             Thrown(<<>>)))

\* What a trace shows.
savesOf(trace)   == SelectSeq(trace, LAMBDA x : x.e = "save")
recordsOf(trace) == [i \in 1..Len(savesOf(trace)) |-> savesOf(trace)[i].b]
repliesOf(trace) == SelectSeq(trace, LAMBDA x : x.e = "reply")
emitsOf(trace)   == SelectSeq(trace, LAMBDA x : x.e = "emit")
emitted(trace, type, tag) ==
    \E i \in 1..Len(trace) :
        trace[i].e = "emit" /\ trace[i].a = type /\ trace[i].b = tag
handlersOf(trace) ==
    {h \in {"listing", "request"} :
        \/ h = "listing" /\ emitted(trace, "status", "Processing property listing...")
        \/ h = "request" /\ emitted(trace, "status", "Processing property request...")}

(***************************************************************************)
(* Fixtures: chats, contacts, messages and collaborator behaviours the     *)
(* specifications draw their inputs from.                                  *)
(***************************************************************************)
gUs == <<"@","g",".","u","s">>

chatAgents  == [isGroup |-> TRUE,
                name |-> <<"P","r","o","p","O","u","t"," ","A","g","e","n","t","s"," ","G","r","o","u","p">>,
                id |-> <<"g","1">> \o gUs]
chatInvite  == [isGroup |-> TRUE,
                name |-> <<"F","a","m","i","l","y">>,
                id |-> <<"C","w","g","Q","P","M","P","7","5","l","y","I","I","0","p","w","t","t","C","f","6","f">> \o gUs]
chatLagos   == [isGroup |-> TRUE,
                name |-> <<" ","p","r","o","p","o","u","t"," ","l","a","g","o","s"," ">>,
                id |-> <<"g","3">> \o gUs]
chatFootball == [isGroup |-> TRUE,
                name |-> <<"F","o","o","t","b","a","l","l">>,
                id |-> <<"g","4">> \o gUs]
chatPrivate == [isGroup |-> FALSE,
                name |-> <<"P","r","o","p","O","u","t">>,
                id |-> <<"p","1">> \o cUs]

AllChats == <<chatAgents, chatInvite, chatPrivate, chatLagos, chatFootball>>

contactAllowed  == [user |-> allowedNumbers[1], pushname |-> <<"A","d","a">>]
contactLocal    == [user |-> <<"0","8","1","3","6","2","1","2","8","7","7">>, pushname |-> <<>>]
contactStranger == [user |-> <<"2","3","4","7","0","0","0","0","0","0","0","0","0">>, pushname |-> <<>>]

bodyListing == <<"H","O","U","S","E"," ","i","n"," ","L","e","k","k","i">>
bodyRequest == <<"I"," ","N","E","E","D"," ","a"," ","f","l","a","t">>
bodyNone    == <<"h","e","l","l","o">>

Msg(body, contact, chat, old) ==
    [body |-> body, contact |-> contact, chat |-> chat, old |-> old]

fenvOk      == [getChatsOk |-> TRUE,  chats |-> <<chatAgents>>, failTo |-> {}]
fenvNoChats == [getChatsOk |-> FALSE, chats |-> <<>>,           failTo |-> {}]

Env(ai, ai2, sv, rp, fenv) ==
    [ai |-> ai, ai2 |-> ai2, save |-> sv, reply |-> rp, fenv |-> fenv,
     media |-> noMedia, page |-> "ok"]

envOk       == Env("ok", "ok", "ok",   "ok", fenvOk)
envSaveFail == Env("ok", "ok", "fail", "ok", fenvOk)
envNoChats  == Env("ok", "ok", "ok",   "ok", fenvNoChats)

\* What the sweep and the message events of the main specification meet.
MainEnvs    == {envOk, envSaveFail, envNoChats}
EventEnvs   == {envOk, envSaveFail}
FetchedMsgs == {Msg(bodyListing, contactAllowed, chatPrivate, FALSE),
                Msg(bodyRequest, contactAllowed, chatPrivate, FALSE),
                Msg(bodyNone,    contactAllowed, chatPrivate, FALSE),
                Msg(bodyListing, contactAllowed, chatPrivate, TRUE)}
EventMsgs   == {Msg(bodyListing, contactAllowed, chatPrivate, FALSE),
                Msg(bodyRequest, contactAllowed, chatPrivate, FALSE)}

\* All sequences over S of length at most n.
SeqsUpTo(S, n) == UNION {[1..k -> S] : k \in 0..n}

(***************************************************************************)
(* ScanCoordinator: the state machine.                                     *)
(* A slot of sweeps is one invocation of scanAllChats:                     *)
(*   pc        "idle" | "getChats" | "fetch" | "msgs"   the await it is at *)
(*   total     chats.length                                                *)
(*   idx       the chat being scanned (1..total)                           *)
(*   processed processedCount                                              *)
(*   remaining the number of fetched messages of the chat not examined yet *)
(*             (what each one holds is drawn when the loop examines it)    *)
(*   failedAt  the first chat of this sweep whose scan hit an error, or 0  *)
(***************************************************************************)
Slots == 1..MaxSweeps

Idle == [pc |-> "idle", total |-> 0, idx |-> 0, processed |-> 0,
         remaining |-> 0, failedAt |-> 0]

NoSweep == [slot |-> 0, ended |-> FALSE, total |-> 0, scanned |-> 0,
            processed |-> 0, failedAt |-> 0, chatEnded |-> FALSE, dropped |-> <<>>]

Last(op, r, sweep) ==
    Let(r, LAMBDA a : [op |-> op, trace |-> a.trace, threw |-> a.threw, sweep |-> sweep])

NoInput == [kind |-> "none"]

active(s) == sweeps[s].pc # "idle"

MachineInit ==
    /\ ready = FALSE
    /\ scanInterval = TRUE
    /\ isScanning = FALSE
    /\ sweeps = [s \in Slots |-> Idle]
    /\ db = <<>>
    /\ last = Last("init", Done(<<>>), NoSweep)

Init == MachineInit /\ input = NoInput

\* client.on('ready')
ClientReady ==
    /\ ~ready
    /\ ready' = TRUE
    /\ last' = Last("ready", emit("status", "WhatsApp client is ready"), NoSweep)
    /\ UNCHANGED <<scanInterval, isScanning, sweeps, db, input>>

\* client.on('disconnected')
Disconnected ==
    /\ ready
    /\ ready' = FALSE
    /\ last' = Last("disconnected", emit("status", "WhatsApp disconnected"), NoSweep)
    /\ UNCHANGED <<scanInterval, isScanning, sweeps, db, input>>

\* The busy check of scanAllChats.
scanBusyNever == FALSE
scanBusy == isScanning

\* What scanAllChats does when a sweep is in progress.
scanBusyRaises == Thrown(emit("error", "Scan already in progress").trace)
scanBusyResult == emit("status", "Scan already in progress")

\* scanAllChats() up to its first await (client.getChats()).
scanAllChats(op) ==
    IF scanBusy
    THEN /\ last' = Last(op, scanBusyResult, NoSweep)
         /\ UNCHANGED <<isScanning, sweeps>>
    ELSE \E s \in Slots :
         /\ ~active(s)
         /\ \A t \in Slots : t < s => active(t)
         /\ isScanning' = TRUE
         /\ sweeps' = [sweeps EXCEPT ![s] = [Idle EXCEPT !.pc = "getChats"]]
         /\ last' = Last(op, emit("status", "Starting comprehensive chat scan..."),
                         [NoSweep EXCEPT !.slot = s])

\* The callback of setInterval in startPeriodicScan.
tickStartsUnguarded == TRUE
tickStarts == ready /\ ~isScanning

Tick ==
    /\ scanInterval
    /\ IF tickStarts
       THEN scanAllChats("tick")
       ELSE /\ last' = Last("tick", Done(<<>>), NoSweep)
            /\ UNCHANGED <<isScanning, sweeps>>
    /\ UNCHANGED <<ready, scanInterval, db, input>>

StartScanWhenever ==
    /\ scanAllChats("startScan")
    /\ UNCHANGED <<ready, scanInterval, db, input>>

\* WhatsAppBot.startScan()
StartScan ==
    /\ IF ~ready
       THEN /\ last' = Last("startScan", Thrown(<<Eff("throw", "WhatsApp client not ready", "")>>), NoSweep)
            /\ UNCHANGED <<isScanning, sweeps>>
       ELSE scanAllChats("startScan")
    /\ UNCHANGED <<ready, scanInterval, db, input>>

clearIntervalKeeps(timer) == timer

\* clearInterval(this.scanInterval); this.scanInterval = null
clearInterval(timer) == FALSE

\* WhatsAppBot.stopPeriodicScan()
StopPeriodicScan ==
    /\ scanInterval
    /\ scanInterval' = clearInterval(scanInterval)
    /\ last' = Last("stopPeriodicScan", Done(<<>>), NoSweep)
    /\ UNCHANGED <<ready, isScanning, sweeps, db, input>>

\* finally { this.isScanning = false }: the flag after a sweep exits,
\* threw telling whether it exits through the catch block.
exitSweepNoFinally(threw) == threw
exitSweep(threw) == FALSE

\* The try/catch around each chat in the loop of scanAllChats, and the one
\* inside scanChat: the loop goes on after a chat whether its scan failed or not.
sweepAbortsOnFailure(failed) == ~failed
sweepContinues(failed) == TRUE

\* Math.round((current / total) * 100)
percentage(current, total) == (200 * current + total) \div (2 * total)

\* the event as it would be if it were emitted before processedCount++
progressEventBeforeIncrement(current, total) ==
    Eff("emit", "progress",
        [total |-> total, current |-> current - 1,
         percentage |-> percentage(current - 1, total)])

progressEvent(current, total) ==
    Eff("emit", "progress",
        [total |-> total, current |-> current, percentage |-> percentage(current, total)])

\* catch (error) { this.emit('error', `Scan failed: ...`); console.error(...) }
scanFailed == Then(emit("error", "Scan failed"), log("Scan failed"))

\* The sweep of slot s leaves scanAllChats; r is what it did in this step.
SweepExits(s, op, r, info) ==
    /\ isScanning' = exitSweep(r.threw)
    /\ sweeps' = [sweeps EXCEPT ![s] = Idle]
    /\ last' = Last(op, r, [info EXCEPT !.slot = s, !.ended = TRUE])

\* scanChat of chat idx has returned (r is what the step did up to there);
\* failed tells that the scan of this chat hit an error, dropped are the
\* fetched messages it did not examine.
ChatEnds(s, op, r, failed, dropped) ==
    LET sl   == sweeps[s]
        f    == IF sl.failedAt = 0 /\ failed THEN sl.idx ELSE sl.failedAt
        p    == sl.processed + 1
        info == [NoSweep EXCEPT !.total = sl.total, !.scanned = sl.idx,
                                !.failedAt = f, !.chatEnded = TRUE,
                                !.dropped = dropped]
    IN  IF ~sweepContinues(failed)
        THEN SweepExits(s, op, Then(r, TryCatch(Thrown(<<>>), scanFailed)),
                        [info EXCEPT !.processed = sl.processed])
        ELSE IF sl.idx < sl.total
        THEN /\ sweeps' = [sweeps EXCEPT ![s] =
                     [sl EXCEPT !.pc = "fetch", !.idx = sl.idx + 1, !.processed = p,
                                !.remaining = 0, !.failedAt = f]]
             /\ last' = Last(op,
                     Then(r, Then(Done(<<progressEvent(p, sl.total)>>),
                                  emit("status", "Scanning chat"))),
                     [info EXCEPT !.slot = s, !.processed = p])
             /\ UNCHANGED isScanning
        ELSE SweepExits(s, op,
                     Then(r, Then(Done(<<progressEvent(p, sl.total)>>),
                                  emit("status", "Scan completed"))),
                     [info EXCEPT !.processed = p])

\* client.getChats() of the sweep settles.
GetChatsReturn(s) ==
    /\ sweeps[s].pc = "getChats"
    /\ \/ \E T \in 1..MaxChats :
            /\ sweeps' = [sweeps EXCEPT ![s] =
                    [Idle EXCEPT !.pc = "fetch", !.total = T, !.idx = 1]]
            /\ last' = Last("getChats",
                    Then(Done(<<Eff("getChats", "ok", "")>>), emit("status", "Scanning chat")),
                    [NoSweep EXCEPT !.slot = s, !.total = T])
            /\ UNCHANGED isScanning
       \/ SweepExits(s, "getChats",
                     Then(Done(<<Eff("getChats", "ok", "")>>),
                          emit("status", "Scan completed")),
                     NoSweep)
       \/ SweepExits(s, "getChats",
                     TryCatch(Thrown(<<Eff("getChats", "fail", "")>>), scanFailed),
                     NoSweep)
    /\ UNCHANGED <<ready, scanInterval, db, input>>

\* chat.fetchMessages({ limit: 100 }) of the chat being scanned settles.
FetchReturn(s) ==
    /\ sweeps[s].pc = "fetch"
    /\ \/ \E n \in 0..MaxMsgs :
            IF n = 0
            THEN ChatEnds(s, "fetch", Done(<<Eff("fetch", "ok", "")>>), FALSE, <<>>)
            ELSE /\ sweeps' = [sweeps EXCEPT ![s].pc = "msgs", ![s].remaining = n]
                 /\ last' = Last("fetch", Done(<<Eff("fetch", "ok", "")>>),
                                 [NoSweep EXCEPT !.slot = s, !.total = sweeps[s].total,
                                                 !.scanned = sweeps[s].idx,
                                                 !.failedAt = sweeps[s].failedAt])
                 /\ UNCHANGED isScanning
       \/ ChatEnds(s, "fetch",
                   TryCatch(Thrown(<<Eff("fetch", "fail", "")>>), log("Error processing chat")),
                   TRUE, <<>>)
    /\ UNCHANGED <<ready, scanInterval, db, input>>

\* The handlers applied to the inputs of the main specification, computed once.
scanMessageTable   == [m \in FetchedMsgs, env \in MainEnvs |-> scanMessage(m, env)]
handleMessageTable == [m \in EventMsgs, env \in EventEnvs |-> handleMessage(m, env)]

\* One iteration of the loop over the fetched messages in scanChat, and,
\* when it was the last one or it threw, the rest of scanChat.
ScanMessage(s) ==
    /\ sweeps[s].pc = "msgs"
    /\ \E m \in FetchedMsgs, env \in MainEnvs :
        \E r \in {scanMessageTable[m, env]} :
        LET sl == sweeps[s]
        IN  /\ Len(db) + Len(savesOf(r.trace)) <= MaxDb
            /\ db' = db \o recordsOf(r.trace)
            /\ IF r.threw
               THEN \E rest \in [1..(sl.remaining - 1) -> FetchedMsgs] :
                        ChatEnds(s, "scanMessage",
                                 TryCatch(r, log("Error processing chat")),
                                 TRUE, rest)
               ELSE IF sl.remaining = 1
               THEN ChatEnds(s, "scanMessage", r, FALSE, <<>>)
               ELSE /\ sweeps' = [sweeps EXCEPT ![s].remaining = sl.remaining - 1]
                    /\ last' = Last("scanMessage", r,
                                    [NoSweep EXCEPT !.slot = s, !.total = sl.total,
                                                    !.scanned = sl.idx,
                                                    !.failedAt = sl.failedAt])
                    /\ UNCHANGED isScanning
    /\ UNCHANGED <<ready, scanInterval, input>>

\* client.on('message'): real-time handling of one message.
MessageEvent ==
    /\ \E m \in EventMsgs, env \in EventEnvs :
        \E r \in {handleMessageTable[m, env]} :
            /\ Len(db) + Len(savesOf(r.trace)) <= MaxDb
            /\ db' = db \o recordsOf(r.trace)
            /\ last' = Last("message", r, NoSweep)
    /\ UNCHANGED <<ready, scanInterval, isScanning, sweeps, input>>

SweepStep == \E s \in Slots : GetChatsReturn(s) \/ FetchReturn(s) \/ ScanMessage(s)

Next ==
    \/ ClientReady
    \/ Disconnected
    \/ Tick
    \/ StartScan
    \/ StopPeriodicScan
    \/ SweepStep
    \/ MessageEvent

Spec == Init /\ [][Next]_vars

\* Every call of the transport made by a sweep settles (resolves or rejects).
LiveSpec == Init /\ [][Next]_vars /\ WF_vars(SweepStep)

(***************************************************************************)
(* Specifications of single calls: the arguments are drawn by the initial  *)
(* state (input) and one action applies the operation to them.             *)
(***************************************************************************)
RECURSIVE pick(_, _, _)
\* The subsequence of s at the indices in S.
pick(s, S, i) ==
    IF i > Len(s) THEN <<>>
    ELSE (IF i \in S THEN <<s[i]>> ELSE <<>>) \o pick(s, S, i + 1)

RECURSIVE concat(_)
concat(ss) == IF ss = <<>> THEN <<>> ELSE Head(ss) \o concat(Tail(ss))

\* --- The scan of a group that was just joined, beside the sweeps ---------------
\* input holds the scan started by client.on('group_join'):
\*   pc        "idle" | "getChatById" | "fetch" | "msgs"   the await it is at
\*   chat      the conversation joined, as its place in the enumeration of chats
\*   remaining the number of its fetched messages not examined yet
NoJoin == [kind |-> "join", pc |-> "idle", chat |-> 0, remaining |-> 0]

InitJoin == MachineInit /\ input = NoJoin

\* client.on('group_join') up to its first await (client.getChatById)
GroupJoin ==
    /\ input.kind = "join"
    /\ input.pc = "idle"
    /\ \E c \in 1..MaxChats : input' = [NoJoin EXCEPT !.pc = "getChatById", !.chat = c]
    /\ last' = Last("group_join", emit("status", "Joined new group"), NoSweep)
    /\ UNCHANGED <<ready, scanInterval, isScanning, sweeps, db>>

\* client.getChatById settles; when it resolves scanChat(chat) starts and
\* reaches chat.fetchMessages.
JoinGetChatReturn ==
    /\ input.kind = "join"
    /\ input.pc = "getChatById"
    /\ \/ /\ input' = [input EXCEPT !.pc = "fetch"]
          /\ last' = Last("getChatById",
                  Then(Done(<<Eff("getChatById", "ok", "")>>),
                       emit("status", "Scanning chat")), NoSweep)
       \/ /\ input' = NoJoin
          /\ last' = Last("getChatById", Thrown(<<Eff("getChatById", "fail", "")>>), NoSweep)
    /\ UNCHANGED <<ready, scanInterval, isScanning, sweeps, db>>

\* chat.fetchMessages({ limit: 100 }) of the joined group settles.
JoinFetchReturn ==
    /\ input.kind = "join"
    /\ input.pc = "fetch"
    /\ \/ \E n \in 0..MaxMsgs :
            /\ input' = IF n = 0 THEN NoJoin
                        ELSE [input EXCEPT !.pc = "msgs", !.remaining = n]
            /\ last' = Last("joinFetch",
                    IF n = 0
                    THEN Then(Done(<<Eff("fetch", "ok", "")>>),
                              emit("status", "Processing group"))
                    ELSE Done(<<Eff("fetch", "ok", "")>>), NoSweep)
       \/ /\ input' = NoJoin
          /\ last' = Last("joinFetch",
                  TryCatch(Thrown(<<Eff("fetch", "fail", "")>>),
                           log("Error processing chat")), NoSweep)
    /\ UNCHANGED <<ready, scanInterval, isScanning, sweeps, db>>

\* One iteration of the loop of scanChat over the messages of the joined
\* group, and, when it was the last one or it threw, the rest of scanChat.
JoinScanMessage ==
    /\ input.kind = "join"
    /\ input.pc = "msgs"
    /\ \E m \in FetchedMsgs, env \in MainEnvs :
        \E r \in {scanMessageTable[m, env]} :
            /\ Len(db) + Len(savesOf(r.trace)) <= MaxDb
            /\ db' = db \o recordsOf(r.trace)
            /\ IF r.threw
               THEN /\ input' = NoJoin
                    /\ last' = Last("joinScanMessage",
                                    TryCatch(r, log("Error processing chat")), NoSweep)
               ELSE IF input.remaining = 1
               THEN /\ input' = NoJoin
                    /\ last' = Last("joinScanMessage",
                                    Then(r, emit("status", "Processing group")), NoSweep)
               ELSE /\ input' = [input EXCEPT !.remaining = input.remaining - 1]
                    /\ last' = Last("joinScanMessage", r, NoSweep)
    /\ UNCHANGED <<ready, scanInterval, isScanning, sweeps>>

JoinStep == GroupJoin \/ JoinGetChatReturn \/ JoinFetchReturn \/ JoinScanMessage

NextJoin ==
    \/ ClientReady
    \/ Disconnected
    \/ Tick
    \/ StartScan
    \/ StopPeriodicScan
    \/ SweepStep
    \/ JoinStep

SpecJoin == InitJoin /\ [][NextJoin]_vars

\* --- notifyAllowedContacts -------------------------------------------------
numberDests == {allowedNumbers[i] \o cUs : i \in 1..Len(allowedNumbers)}
groupDests  == {AllChats[i].id : i \in {j \in 1..Len(AllChats) : AllChats[j].isGroup}}

FanoutInputs ==
    {[kind |-> "fanout", message |-> bodyListing,
      fenv |-> [getChatsOk |-> g, chats |-> pick(AllChats, S, 1), failTo |-> F]] :
        g \in BOOLEAN,
        S \in SUBSET (1..Len(AllChats)),
        F \in {X \in SUBSET (numberDests \cup groupDests) : Cardinality(X) <= MaxFail}}

InitFanout == MachineInit /\ input \in FanoutInputs

Broadcast ==
    /\ input.kind = "fanout"
    /\ last.op = "init"
    /\ last' = Last("notifyAllowedContacts",
                    notifyAllowedContacts(input.message, input.fenv), NoSweep)
    /\ UNCHANGED <<ready, scanInterval, isScanning, sweeps, db, input>>

NextFanout == Broadcast

SpecFanout == InitFanout /\ [][NextFanout]_vars

\* --- handleMessage ---------------------------------------------------------
bodyBoth == <<"n","e","e","d"," ","a","p","a","r","t","m","e","n","t">>

fenvNumberFails == [getChatsOk |-> TRUE, chats |-> <<chatAgents>>,
                    failTo |-> {allowedNumbers[2] \o cUs}]
fenvGroupFails  == [getChatsOk |-> TRUE, chats |-> <<chatAgents>>,
                    failTo |-> {chatAgents.id}]

IngestBodies   == {bodyListing, bodyRequest, bodyBoth, bodyNone}
IngestContacts == {contactAllowed, contactLocal, contactStranger,
                   [contactStranger EXCEPT !.pushname = contactAllowed.pushname]}
IngestChats    == {chatPrivate, chatAgents, chatFootball}
IngestFenvs    == {fenvOk, fenvNoChats, fenvNumberFails, fenvGroupFails}

IngestInputs ==
    {[kind |-> "ingest", msg |-> Msg(b, c, ch, FALSE), env |-> Env(ai, ai2, sv, rp, f)] :
        b \in IngestBodies, c \in IngestContacts, ch \in IngestChats,
        ai \in {"ok", "malformed", "fail"}, ai2 \in {"ok", "malformed", "fail"},
        sv \in {"ok", "fail"}, rp \in {"ok", "fail"}, f \in IngestFenvs}

InitIngest == MachineInit /\ input \in IngestInputs

IngestEvent ==
    /\ input.kind = "ingest"
    /\ last.op = "init"
    /\ \E r \in {handleMessage(input.msg, input.env)} :
        /\ db' = db \o recordsOf(r.trace)
        /\ last' = Last("handleMessage", r, NoSweep)
    /\ UNCHANGED <<ready, scanInterval, isScanning, sweeps, input>>

\* The same message met by the loop of scanChat (sweep or group_join scan).
IngestSweep ==
    /\ input.kind = "ingest"
    /\ last.op = "init"
    /\ \E r \in {scanMessage(input.msg, input.env)} :
        /\ db' = db \o recordsOf(r.trace)
        /\ last' = Last("scanMessage", r, NoSweep)
    /\ UNCHANGED <<ready, scanInterval, isScanning, sweeps, input>>

NextIngest == IngestEvent \/ IngestSweep

SpecIngest == InitIngest /\ [][NextIngest]_vars

\* --- handleMessage: the replies to the sender ------------------------------
ReplyInputs ==
    {[kind |-> "reply", msg |-> Msg(b, c, ch, FALSE), env |-> Env(ai, ai2, sv, rp, f)] :
        b \in IngestBodies, c \in IngestContacts, ch \in IngestChats,
        ai \in {"ok", "fail"}, ai2 \in {"ok", "fail"}, sv \in {"ok", "fail"},
        rp \in {"ok", "fail", "acknowledgmentFails"}, f \in {fenvOk, fenvNoChats}}

InitReply == MachineInit /\ input \in ReplyInputs

ReplyEvent ==
    /\ input.kind = "reply"
    /\ last.op = "init"
    /\ \E r \in {handleMessage(input.msg, input.env)} :
        /\ db' = db \o recordsOf(r.trace)
        /\ last' = Last("handleMessage", r, NoSweep)
    /\ UNCHANGED <<ready, scanInterval, isScanning, sweeps, input>>

NextReply == ReplyEvent

SpecReply == InitReply /\ [][NextReply]_vars

\* --- classification and dispatch -------------------------------------------
MaxFrags == 2       \* fragments a classified text is made of

\* Fragments of text, each tagged with the keyword class it holds:
\* "L" a listing keyword, "R" a request keyword, "N" none.
Fragments == {
    [tag |-> "L", text |-> <<"H","O","U","S","E"," ">>],
    [tag |-> "L", text |-> <<"F","o","r"," ","R","e","n","t"," ">>],
    [tag |-> "R", text |-> <<"W","a","n","t","e","d"," ">>],
    [tag |-> "R", text |-> <<"I"," ","N","E","E","D"," ">>],
    [tag |-> "N", text |-> <<"h","e","l","l","o"," ">>],
    [tag |-> "N", text |-> <<"f","l","a","t"," ">>] }

textOf(frags) == concat([i \in 1..Len(frags) |-> frags[i].text])
tagsOf(frags) == {frags[i].tag : i \in 1..Len(frags)}

ClassifyInputs ==
    {[kind |-> "classify", frags |-> fs,
      msg |-> Msg(textOf(fs), contactAllowed, chatPrivate, FALSE), env |-> envOk] :
        fs \in SeqsUpTo(Fragments, MaxFrags)}

InitClassify == MachineInit /\ input \in ClassifyInputs

ClassifyEvent ==
    /\ input.kind = "classify"
    /\ last.op = "init"
    /\ last' = Last("handleMessage", handleMessage(input.msg, input.env), NoSweep)
    /\ UNCHANGED <<ready, scanInterval, isScanning, sweeps, db, input>>

ClassifySweep ==
    /\ input.kind = "classify"
    /\ last.op = "init"
    /\ last' = Last("scanMessage", scanMessage(input.msg, input.env), NoSweep)
    /\ UNCHANGED <<ready, scanInterval, isScanning, sweeps, db, input>>

NextClassify == ClassifyEvent \/ ClassifySweep

SpecClassify == InitClassify /\ [][NextClassify]_vars

\* --- handlePropertyListing: long bodies and attachments ----------------------
MaxDelta == 1       \* how far around a limit the lengths and sizes are drawn

\* A listing body of n characters.
longBody(n) == <<"H","O","U","S","E"," ">> \o [i \in 1..(n - 6) |-> "x"]

BodyLengths ==
    {MAX_MESSAGE_LENGTH + d : d \in (0 - MaxDelta)..MaxDelta} \cup {6, 20000}

\* Attachment sizes around the limit, and around the size whose base64 text
\* reaches the limit.
ImageSizes ==
    {MAX_IMAGE_SIZE + d : d \in (0 - MaxDelta)..MaxDelta}
    \cup {(3 * MAX_IMAGE_SIZE) \div 4 + d : d \in (0 - MaxDelta)..MaxDelta}

Media ==
    {noMedia, [has |-> TRUE, ok |-> FALSE, size |-> 0]}
    \cup {[has |-> TRUE, ok |-> TRUE, size |-> n] : n \in ImageSizes}

ListingInputs ==
    {[kind |-> "listing", msg |-> Msg(longBody(n), contactAllowed, chatPrivate, FALSE),
      env |-> [envOk EXCEPT !.media = md]] :
        n \in BodyLengths, md \in Media}

InitListing == MachineInit /\ input \in ListingInputs

ListingEvent ==
    /\ input.kind = "listing"
    /\ last.op = "init"
    /\ \E r \in {handleMessage(input.msg, input.env)} :
        /\ db' = db \o recordsOf(r.trace)
        /\ last' = Last("handleMessage", r, NoSweep)
    /\ UNCHANGED <<ready, scanInterval, isScanning, sweeps, input>>

ListingSweep ==
    /\ input.kind = "listing"
    /\ last.op = "init"
    /\ \E r \in {scanMessage(input.msg, input.env)} :
        /\ db' = db \o recordsOf(r.trace)
        /\ last' = Last("scanMessage", r, NoSweep)
    /\ UNCHANGED <<ready, scanInterval, isScanning, sweeps, input>>

NextListing == ListingEvent \/ ListingSweep

SpecListing == InitListing /\ [][NextListing]_vars

\* --- truncateMessage and the texts of the broadcasts --------------------------
\* A request body of n characters.
longRequest(n) == bodyRequest \o [i \in 1..(n - Len(bodyRequest)) |-> "x"]

contactNoName == [contactAllowed EXCEPT !.pushname = <<>>]

\* The notification of a message before its body is put in.
notificationHead(kind, contact) ==
    IF kind = "listing"
    THEN listingNotification(Msg(<<>>, contact, chatPrivate, FALSE))
    ELSE requestNotification(Msg(<<>>, contact, chatPrivate, FALSE))

\* Body lengths: a short one, those at which the notification reaches the
\* limit, those at which the body does, and one far beyond.
TruncateLengths(kind, contact) ==
    {20, MAX_MESSAGE_LENGTH - Len(notificationHead(kind, contact)),
     MAX_MESSAGE_LENGTH - Len(notificationHead(kind, contact)) + 1,
     MAX_MESSAGE_LENGTH, MAX_MESSAGE_LENGTH + 1, 20000}

\* Texts for truncateMessage alone: around the limit, around the length of a
\* truncated text, and the same texts ending in the marker already.
TruncateTexts ==
    LET plain == {longBody(n) :
                    n \in {20, MAX_MESSAGE_LENGTH - 1, MAX_MESSAGE_LENGTH,
                           MAX_MESSAGE_LENGTH + 1,
                           MAX_MESSAGE_LENGTH + Len(truncationMarker) - 1,
                           MAX_MESSAGE_LENGTH + Len(truncationMarker),
                           MAX_MESSAGE_LENGTH + Len(truncationMarker) + 1, 20000}}
    IN  plain \cup {t \o truncationMarker : t \in plain}

TruncateInputs ==
    {[kind |-> "broadcast",
      msg |-> Msg(IF k = "listing" THEN longBody(n) ELSE longRequest(n),
                  c, chatPrivate, FALSE),
      env |-> envOk] :
        k \in {"listing", "request"}, c \in {contactAllowed, contactNoName},
        n \in UNION {TruncateLengths(k2, c2) :
                        k2 \in {"listing", "request"},
                        c2 \in {contactAllowed, contactNoName}}}
    \cup {[kind |-> "truncate", text |-> t] : t \in TruncateTexts}

InitTruncate == MachineInit /\ input \in TruncateInputs

TruncateEvent ==
    /\ input.kind = "broadcast"
    /\ last.op = "init"
    /\ \E r \in {handleMessage(input.msg, input.env)} :
        /\ db' = db \o recordsOf(r.trace)
        /\ last' = Last("handleMessage", r, NoSweep)
    /\ UNCHANGED <<ready, scanInterval, isScanning, sweeps, input>>

\* truncateMessage(text), and truncateMessage of what it returned
TruncateTwice ==
    /\ input.kind = "truncate"
    /\ last.op = "init"
    /\ \E once \in {truncateMessage(input.text)} :
        last' = Last("truncateMessage",
                     Done(<<Eff("value", once, truncateMessage(once))>>), NoSweep)
    /\ UNCHANGED <<ready, scanInterval, isScanning, sweeps, db, input>>

TruncateSweep ==
    /\ input.kind = "broadcast"
    /\ last.op = "init"
    /\ \E r \in {scanMessage(input.msg, input.env)} :
        /\ db' = db \o recordsOf(r.trace)
        /\ last' = Last("scanMessage", r, NoSweep)
    /\ UNCHANGED <<ready, scanInterval, isScanning, sweeps, input>>

NextTruncate == TruncateEvent \/ TruncateSweep \/ TruncateTwice

SpecTruncate == InitTruncate /\ [][NextTruncate]_vars

\* --- Prices: extractPrice, the maxPrice of a request, the scraped price ------
MaxPriceFrags == 2      \* fragments a text holding a price is made of

PriceFragments == {
    <<"p","r","i","c","e",":"," ">>, <<nairaSign>>, <<"N","G","N"," ">>,
    <<" ","n","a","i","r","a">>, <<"2">>, <<",">>, <<".","5","0">>, <<"5","k">>,
    <<"C","a","l","l",","," ">>, <<"x"," ">> }

PriceTexts ==
    UNION {{concat(fs) : fs \in [1..n -> PriceFragments]} : n \in 0..MaxPriceFrags}

scrapedListing(price) ==
    [title |-> <<"F","l","a","t">>, description |-> <<"3"," ","b","e","d","s">>,
     price |-> price, location |-> <<"L","e","k","k","i">>,
     contact |-> <<"0","8","0","3">>]

PriceInputs ==
    {[kind |-> "price", text |-> t, env |-> [envOk EXCEPT !.ai = ai]] :
        t \in PriceTexts, ai \in {"ok", "malformed", "negative"}}

listingWithPrice(text) ==
    Msg(<<"H","o","u","s","e"," ","i","n"," ","L","e","k","k","i",","," ">> \o text,
        contactAllowed, chatPrivate, FALSE)

requestWithPrice(text) ==
    Msg(<<"W","a","n","t","e","d",":"," ","f","l","a","t",","," ">> \o text,
        contactAllowed, chatPrivate, FALSE)

InitPrice == MachineInit /\ input \in PriceInputs

PriceOfChatListing ==
    /\ input.kind = "price"
    /\ last.op = "init"
    /\ input.env.ai = "ok"
    /\ \E r \in {handleMessage(listingWithPrice(input.text), input.env)} :
        /\ db' = db \o recordsOf(r.trace)
        /\ last' = Last("handleMessage listing", r, NoSweep)
    /\ UNCHANGED <<ready, scanInterval, isScanning, sweeps, input>>

PriceOfChatRequest ==
    /\ input.kind = "price"
    /\ last.op = "init"
    /\ \E r \in {handleMessage(requestWithPrice(input.text), input.env)} :
        /\ db' = db \o recordsOf(r.trace)
        /\ last' = Last("handleMessage request", r, NoSweep)
    /\ UNCHANGED <<ready, scanInterval, isScanning, sweeps, input>>

PriceOfScrapedListing ==
    /\ input.kind = "price"
    /\ last.op = "init"
    /\ input.env.ai = "ok"
    /\ \E r \in {scrapePropertyListings(<<scrapedListing(input.text)>>, input.env)} :
        /\ db' = db \o recordsOf(r.trace)
        /\ last' = Last("scrapePropertyListings", r, NoSweep)
    /\ UNCHANGED <<ready, scanInterval, isScanning, sweeps, input>>

NextPrice == PriceOfChatListing \/ PriceOfChatRequest \/ PriceOfScrapedListing

SpecPrice == InitPrice /\ [][NextPrice]_vars

\* --- PropertyMatcher.findMatches --------------------------------------------
MaxCopies == 3      \* copies of one listing in the collection
MaxLocs   == 2      \* preferred locations of a request

\* .limit(5)
matchLimit == 5

\* A regular expression made of literal characters and '.', tested with the
\* 'i' option at position i of the text.
regexMatchesAt(pattern, text, i) ==
    /\ i + Len(pattern) - 1 <= Len(text)
    /\ \A k \in 1..Len(pattern) :
          \/ pattern[k] = "."
          \/ toLowerCaseChar(pattern[k]) = toLowerCaseChar(text[i + k - 1])

\* { $regex: pattern, $options: 'i' }: the pattern is found somewhere in the text.
regex(pattern, text) ==
    \E i \in 1..(Len(text) + 1) : regexMatchesAt(pattern, text, i)

\* $or over the preferred locations, each one used as a regular expression.
locationMatches(listing, request) ==
    \E j \in 1..Len(request.requirements.preferredLocations) :
        regex(request.requirements.preferredLocations[j], listing.location)

\* The filter of the query: $and of price, propertyType and location.
selects(listing, request) ==
    /\ listing.price <= request.requirements.maxPrice
    /\ listing.propertyType = request.requirements.propertyType
    /\ locationMatches(listing, request)

\* .limit(n)
limit(docs, n) == SubSeq(docs, 1, IF Len(docs) < n THEN Len(docs) ELSE n)

\* PropertyListing.find(query).limit(5) over the stored listings.
find(request, listings) ==
    limit(SelectSeq(listings, LAMBDA l : selects(l, request)), matchLimit)

RECURSIVE digits(_)
\* Number.prototype.toLocaleString for a natural number below 1000.
digits(n) ==
    IF n < 10 THEN <<SubSeq(<<"0","1","2","3","4","5","6","7","8","9">>, n + 1, n + 1)[1]>>
    ELSE digits(n \div 10) \o digits(n % 10)

RECURSIVE join(_, _)
\* Array.prototype.join
join(parts, sep) ==
    IF parts = <<>> THEN <<>>
    ELSE IF Len(parts) = 1 THEN parts[1]
    ELSE parts[1] \o sep \o join(Tail(parts), sep)

\* PropertyMatcher.createWhatsAppMessage (pictograms left out)
createWhatsAppMessage(request, matches) ==
    <<"*","P","r","o","p","e","r","t","y"," ","M","a","t","c","h","e","s"," ","F","o","u","n","d","!","*","\n","\n">>
    \o <<"F","o","r"," ","r","e","q","u","e","s","t",":"," ">>
    \o request.requirements.propertyType \o <<" ","i","n"," ">>
    \o join(request.requirements.preferredLocations, <<",", " ">>) \o <<"\n","\n">>
    \o join([i \in 1..Len(matches) |->
                <<"*">> \o matches[i].title \o <<"*","\n">>
                \o digits(matches[i].price) \o <<"\n">>
                \o matches[i].location \o <<"\n">>
                \o <<"C","o","n","t","a","c","t",":"," ">> \o matches[i].contact \o <<"\n">>
                \o <<"-","-","-">>],
            <<"\n","\n">>)

\* emailTransporter.sendMail({to: ...})
sendMail(to, outcome) ==
    IF outcome = "ok" THEN Done(<<Eff("mail", to, "Property Matches Found!")>>)
    ELSE Thrown(<<Eff("mailFail", to, "Property Matches Found!")>>)

notifyMatchesMailsAnyContact(request, matches, menv) ==
    Then(sendMail(request.requesterInfo.contact, menv.mail),
         notifyAllowedContacts(createWhatsAppMessage(request, matches), menv.fenv))

\* PropertyMatcher.notifyMatches(request, matches); menv is [mail, fenv].
notifyMatches(request, matches, menv) ==
    Then(IF includes(request.requesterInfo.contact, <<"@">>)
         THEN sendMail(request.requesterInfo.contact, menv.mail)
         ELSE Done(<<>>),
         notifyAllowedContacts(createWhatsAppMessage(request, matches), menv.fenv))

\* PropertyMatcher.findMatches(request) over the stored listings.
findMatches(request, listings, menv) ==
    Let(find(request, listings), LAMBDA matches :
        Then(Done(<<Eff("find", "ok", matches)>>),
             IF Len(matches) > 0 THEN notifyMatches(request, matches, menv)
             ELSE Done(<<>>)))

\* Stored listings and requests the matcher meets.
typeApartment == <<"a","p","a","r","t","m","e","n","t">>
typeHouse     == <<"h","o","u","s","e">>

Listing(title, price, propertyType, location) ==
    [title |-> title, price |-> price, propertyType |-> propertyType,
     location |-> location, contact |-> contactAllowed.user]

Catalogue == <<
    Listing(<<"A">>, 50,  typeApartment, <<"L","e","k","k","i"," ","P","h","a","s","e"," ","1">>),
    Listing(<<"B">>, 150, typeApartment, <<"L","e","k","k","i">>),
    Listing(<<"C">>, 50,  typeHouse,     <<"l","e","k","k","i">>),
    Listing(<<"D">>, 50,  typeApartment, <<"O","v","w","i","a","n",","," ","D","e","l","t","a">>),
    Listing(<<"E">>, 50,  typeApartment, <<"I","k","o","y","i">>) >>

RECURSIVE copies(_, _)
copies(x, k) == IF k = 0 THEN <<>> ELSE <<x>> \o copies(x, k - 1)

\* The collection holding k copies of each listing of the catalogue chosen by S.
Collection(S, k) ==
    concat([i \in 1..Len(Catalogue) |-> IF i \in S THEN copies(Catalogue[i], k) ELSE <<>>])

PreferredLocations == {<<"L","E","K","K","I">>, <<"V",".","I">>, <<"i","k","o","y","i">>}

emailContact == <<"a","g","e","n","t","@","m","a","i","l",".","c","o","m">>

Request(propertyType, locations, contact) ==
    [requirements |-> [propertyType |-> propertyType, maxPrice |-> 100,
                       preferredLocations |-> locations],
     requesterInfo |-> [contact |-> contact]]

MatchInputs ==
    {[kind |-> "match", request |-> Request(t, locs, c),
      listings |-> Collection(S, k), menv |-> [mail |-> m, fenv |-> fenvOk]] :
        t \in {typeApartment, typeHouse},
        locs \in SeqsUpTo(PreferredLocations, MaxLocs) \ {<<>>},
        c \in {contactAllowed.user, emailContact},
        S \in SUBSET (1..Len(Catalogue)), k \in 1..MaxCopies,
        m \in {"ok", "fail"}}

InitMatch == MachineInit /\ input \in MatchInputs

FindMatches ==
    /\ input.kind = "match"
    /\ last.op = "init"
    /\ last' = Last("findMatches",
                    findMatches(input.request, input.listings, input.menv), NoSweep)
    /\ UNCHANGED <<ready, scanInterval, isScanning, sweeps, db, input>>

NextMatch == FindMatches

SpecMatch == InitMatch /\ [][NextMatch]_vars

(***************************************************************************)
(* Properties.                                                             *)
(***************************************************************************)
logged(trace, tag) ==
    \E i \in 1..Len(trace) : trace[i].e = "log" /\ trace[i].a = tag

replyKinds(trace) == {repliesOf(trace)[i].a : i \in 1..Len(repliesOf(trace))}

\* A recent message that classifies as a listing or a request.
qualifies(m) ==
    /\ ~m.old
    /\ \/ isPropertyListing(toLowerCase(m.body))
       \/ isPropertyRequest(toLowerCase(m.body))

\* C1: under any interleaving of timer ticks and startScan calls at most one
\* sweep (the body of scanAllChats after the busy check) is executing, and
\* isScanning is true exactly while a sweep is executing.
C1_SingleFlight ==
    /\ Cardinality({s \in Slots : active(s)}) <= 1
    /\ isScanning <=> (\E s \in Slots : active(s))

\* A sweep is in the middle of a conversation and a second scan was just asked for.
C1_Witness ==
    /\ last.op = "startScan"
    /\ isScanning
    /\ \E s \in Slots : sweeps[s].pc = "msgs"

\* C2: a call of scanAllChats made (through startScan) while a sweep is running
\* changes nothing: it emits the status 'Scan already in progress' and nothing
\* else, raises no error, starts and queues no sweep, enumerates no
\* conversation, ingests no message and leaves the flag set.
C2_BusyScanIsNoOp ==
    [][(isScanning /\ ready /\ last'.op = "startScan") =>
          /\ UNCHANGED <<ready, scanInterval, isScanning, sweeps, db>>
          /\ last'.trace = <<Eff("emit", "status", "Scan already in progress")>>
          /\ ~last'.threw]_vars

C2_Witness ==
    /\ last.op = "startScan"
    /\ emitted(last.trace, "status", "Scan already in progress")
    /\ isScanning
    /\ \E s \in Slots : active(s)

\* C3: every sweep that sets the flag eventually clears it, on every exit path
\* (completion, failure of getChats, failure inside a conversation scan), and
\* once no sweep is executing the flag is clear, so that a new sweep can start.
C3_FlagReleased ==
    /\ isScanning ~> ~isScanning
    /\ []((\A s \in Slots : ~active(s)) => ~isScanning)

\* The sweep has just left through the failure of getChats, and the flag is clear.
C3_Witness ==
    /\ last.op = "getChats"
    /\ last.sweep.ended
    /\ last.threw
    /\ ~isScanning

\* C4: a failure while scanning one conversation does not abort the sweep:
\* after it the sweep goes on to the next conversation, and a sweep in which a
\* conversation failed ends having scanned every conversation, with its
\* completion status and without the scan-failed error.
C4_SweepSurvivesFailure ==
    LET w == last.sweep
    IN  w.failedAt # 0 =>
          /\ w.ended =>
                /\ w.scanned = w.total
                /\ emitted(last.trace, "status", "Scan completed")
                /\ ~emitted(last.trace, "error", "Scan failed")
                /\ ~last.threw
          /\ (w.chatEnded /\ ~w.ended) =>
                /\ sweeps[w.slot].pc = "fetch"
                /\ sweeps[w.slot].idx = w.scanned + 1
                /\ sweeps[w.slot].total = w.total

\* A sweep over several conversations has ended after its first conversation failed.
C4_Witness ==
    /\ last.sweep.ended
    /\ last.sweep.failedAt = 1
    /\ last.sweep.total >= 2
    /\ last.sweep.scanned = last.sweep.total

\* C5 (as claimed): within a sweep every fetched message that is not older than
\* 24 hours and classifies as a listing or a request is handed to its handler,
\* also when it comes after a message of the same conversation whose
\* ingestion failed: when the scan of a conversation ends, no such message
\* was left unexamined.
C5_EveryRecentMessageIngested ==
    last.sweep.chatEnded =>
        \A i \in 1..Len(last.sweep.dropped) : ~qualifies(last.sweep.dropped[i])

\* The destinations a broadcast has: the allowed numbers and the groups of the
\* enumeration that pass its name check.
broadcastDests(fenv) ==
    numberDests \cup
    {fenv.chats[i].id : i \in {j \in 1..Len(fenv.chats) :
                                  fenv.chats[j].isGroup /\ matchedName(fenv.chats[j])}}

failureLogs(trace) ==
    SelectSeq(trace, LAMBDA x : x.e = "log" /\
                  x.a \in {"Failed to notify number", "Failed to send to group"})

\* C6: in a broadcast whose sends fail for some destinations, a send is still
\* attempted, exactly once, to every destination, every destination whose send
\* does not fail receives the (truncated) message, each failure is logged and
\* no exception escapes notifyAllowedContacts.
C6_SendFailuresIsolated ==
    (last.op = "notifyAllowedContacts" /\ input.fenv.getChatsOk) =>
        LET dests == broadcastDests(input.fenv)
        IN  /\ ~last.threw
            /\ destsOf(attemptsOf(last.trace)) = dests
            /\ Len(attemptsOf(last.trace)) = Cardinality(dests)
            /\ destsOf(sendsOf(last.trace)) = dests \ input.fenv.failTo
            /\ Len(failureLogs(last.trace)) = Cardinality(dests \cap input.fenv.failTo)
            /\ \A i \in 1..Len(sendsOf(last.trace)) :
                   sendsOf(last.trace)[i].b = truncateMessage(input.message)

\* The send to the first number failed; a later number and a group received the message.
C6_Witness ==
    /\ last.op = "notifyAllowedContacts"
    /\ input.fenv.getChatsOk
    /\ input.fenv.failTo = {allowedNumbers[1] \o cUs}
    /\ (allowedNumbers[3] \o cUs) \in destsOf(sendsOf(last.trace))
    /\ chatAgents.id \in destsOf(sendsOf(last.trace))

\* Something fails inside the fanout for this transport behaviour.
fanoutFails(fenv) == ~fenv.getChatsOk \/ fenv.failTo # {}

\* C7 (as claimed): a failure inside the fanout (a send to a number, a send to a
\* group, or the enumeration of the conversations) never escalates: the saved
\* record stays saved, the handler returns normally and an authorized sender
\* gets the success acknowledgment, not the apology.
C7_FanoutNeverEscalates ==
    (/\ last.op = "handleMessage"
     /\ Len(savesOf(last.trace)) = 1
     /\ fanoutFails(input.env.fenv)
     /\ input.env.ai2 = "ok"
     /\ input.env.reply = "ok") =>
        /\ db = recordsOf(last.trace)
        /\ ~last.threw
        /\ ~logged(last.trace, "Error in handlePropertyListing")
        /\ ~logged(last.trace, "Error in handlePropertyRequest")
        /\ ~logged(last.trace, "Error handling message")
        /\ "apology" \notin replyKinds(last.trace)
        /\ isAuthorized(input.msg) =>
               replyKinds(last.trace) \in {{"listing saved"}, {"request recorded"}}

groupsAttempted(trace) == destsOf(attemptsOf(trace)) \ numberDests

\* C8 (as claimed): the groups a broadcast sends to are exactly the groups of
\* the enumeration for which isAllowedGroup is true (name or id match).
C8_BroadcastGroupsAreAllowedGroups ==
    (last.op = "notifyAllowedContacts" /\ input.fenv.getChatsOk) =>
        groupsAttempted(last.trace) =
            {input.fenv.chats[i].id : i \in {j \in 1..Len(input.fenv.chats) :
                                                isAllowedGroup(input.fenv.chats[j])}}

\* The records with the identity of the sender left out.
anonymous(records) == [i \in 1..Len(records) |-> [records[i] EXCEPT !.contact = <<>>]]

\* C9: authorization influences only the inline replies: the same message under
\* the same collaborator outcomes, sent by any other sender in any other chat
\* (authorized or not, shown under the same name), persists the same record
\* and performs the same broadcast sends.
C9_AuthorizationGatesOnlyReplies ==
    last.op = "handleMessage" =>
        \A c \in IngestContacts, ch \in IngestChats :
            displayName(c) = displayName(input.msg.contact) =>
                \A alt \in {handleMessage(Msg(input.msg.body, c, ch, FALSE), input.env)} :
                    /\ anonymous(recordsOf(alt.trace)) = anonymous(recordsOf(last.trace))
                    /\ attemptsOf(alt.trace) = attemptsOf(last.trace)
                    /\ sendsOf(alt.trace) = sendsOf(last.trace)

\* A sender that is not authorized had its message persisted and broadcast, without a reply.
C9_Witness ==
    /\ last.op = "handleMessage"
    /\ ~isAuthorized(input.msg)
    /\ Len(db) = 1
    /\ Len(sendsOf(last.trace)) > 0
    /\ repliesOf(last.trace) = <<>>

expectedHandlers(tags) ==
    IF "L" \in tags THEN {"listing"}
    ELSE IF "R" \in tags THEN {"request"} ELSE {}

\* C10: classification is total and listing-first: a text holding a listing
\* keyword (with or without a request keyword) goes to the listing handler, a
\* text holding a request keyword and no listing keyword to the request
\* handler, a text holding neither to no handler; the real-time handler and the
\* sweep both dispatch so, never to both handlers.
C10_ListingFirstDispatch ==
    last.op \in {"handleMessage", "scanMessage"} =>
        /\ isPropertyListing(toLowerCase(input.msg.body)) <=> "L" \in tagsOf(input.frags)
        /\ isPropertyRequest(toLowerCase(input.msg.body)) <=> "R" \in tagsOf(input.frags)
        /\ handlersOf(last.trace) = expectedHandlers(tagsOf(input.frags))

\* A text with both kinds of keyword was dispatched by the sweep to the listing handler only.
C10_Witness ==
    /\ last.op = "scanMessage"
    /\ tagsOf(input.frags) = {"L", "R"}
    /\ handlersOf(last.trace) = {"listing"}

\* The message of the call under study classifies as a request and not as a listing.
requestOnly(m) ==
    /\ ~isPropertyListing(toLowerCase(m.body))
    /\ isPropertyRequest(toLowerCase(m.body))

listingClassified(m) == isPropertyListing(toLowerCase(m.body))

ingested == last.op \in {"handleMessage", "scanMessage"}

\* The replies of a kind that were attempted, delivered or not.
replyAttempts(trace, kind) ==
    SelectSeq(trace, LAMBDA x : x.e \in {"reply", "replyFail"} /\ x.a = kind)

\* C11: a message that classifies as neither listing nor request changes
\* nothing, in real-time handling and in the sweep alike: nothing is persisted,
\* no broadcast is sent, the semantic analysis is not called, no reply is sent
\* and nothing is raised, whatever the collaborators would have done.
C11_UnclassifiedIsIgnored ==
    (ingested /\ input.msg.body = bodyNone) =>
        /\ last.trace = <<>>
        /\ ~last.threw
        /\ db = <<>>

\* An unclassified message of an authorized sender was handled in real time.
C11_Witness ==
    /\ last.op = "handleMessage"
    /\ input.msg.body = bodyNone
    /\ isAuthorized(input.msg)
    /\ input.env.save = "ok"

\* C12 (as claimed): every message classified as a request gets a RequestRecord
\* persisted (storage working) whatever the semantic analysis does: valid
\* output, malformed output, or failure of the analysis call itself; when the
\* output is not valid the record holds the safe default.
C12_RequestAlwaysPersisted ==
    (ingested /\ requestOnly(input.msg) /\ input.env.save = "ok") =>
        /\ Len(db) = 1
        /\ db[1].kind = "request"
        /\ input.env.ai # "ok" =>
              /\ db[1].requestType = "buy"
              /\ db[1].requirements.propertyType = defaultAnalysis.propertyType
              /\ db[1].requirements.maxPrice = 0
              /\ db[1].requirements.preferredLocations = defaultAnalysis.preferredLocations
              /\ db[1].urgency = "medium"

\* C13: when the analysis call fails for a listing, the listing is persisted
\* (storage working) with 'AI analysis failed' as its analysis, and the
\* broadcast for it is performed: every allowed number is sent the notification.
C13_ListingSurvivesAnalysisFailure ==
    (ingested /\ listingClassified(input.msg)
        /\ input.env.ai = "fail" /\ input.env.save = "ok") =>
        /\ Len(db) = 1
        /\ db[1].kind = "listing"
        /\ db[1].analysis = "AI analysis failed"
        /\ db[1].description = truncateMessage(input.msg.body)
        /\ numberDests \subseteq destsOf(attemptsOf(last.trace))
        /\ \A i \in 1..Len(attemptsOf(last.trace)) :
               attemptsOf(last.trace)[i].b =
                   truncateMessage(listingNotification(input.msg))

\* The analysis failed, the listing was saved and the notification delivered.
C13_Witness ==
    /\ last.op = "handleMessage"
    /\ input.msg.body = bodyListing
    /\ input.env.ai = "fail"
    /\ Len(db) = 1
    /\ logged(last.trace, "AI analysis failed")
    /\ Len(sendsOf(last.trace)) > 0

saveFailed(trace) == \E i \in 1..Len(trace) : trace[i].e = "saveFail"

\* C14: when the save of the record fails during real-time handling, the
\* failure is caught by the handler and raised again to handleMessage (a
\* pipeline-level failure), nothing is stored, no broadcast and no success
\* acknowledgment are sent, and the apology is sent exactly when the sender is
\* authorized (allowed number or allowed group).
C14_SaveFailureSurfaces ==
    (last.op = "handleMessage" /\ saveFailed(last.trace)) =>
        /\ db = <<>>
        /\ \/ logged(last.trace, "Error in handlePropertyListing")
           \/ logged(last.trace, "Error in handlePropertyRequest")
        /\ emitted(last.trace, "error", "Failed to process property listing")
           \/ emitted(last.trace, "error", "Failed to process property request")
        /\ logged(last.trace, "Error handling message")
        /\ attemptsOf(last.trace) = <<>>
        /\ replyAttempts(last.trace, "listing saved") = <<>>
        /\ replyAttempts(last.trace, "request recorded") = <<>>
        /\ Len(replyAttempts(last.trace, "apology")) =
               (IF isAuthorized(input.msg) THEN 1 ELSE 0)
        /\ input.env.reply = "ok" =>
               replyKinds(last.trace) =
                   (IF isAuthorized(input.msg) THEN {"apology"} ELSE {})

\* The save failed for a sender authorized through the group only, who got the apology.
C14_Witness ==
    /\ last.op = "handleMessage"
    /\ saveFailed(last.trace)
    /\ ~isAllowedNumber(input.msg.contact.user)
    /\ isAllowedGroup(input.msg.chat)
    /\ replyKinds(last.trace) = {"apology"}

\* C15 (as claimed): the acknowledgment sent for a request shows the fields of
\* the RequestRecord persisted for that message: type, property type,
\* locations, additional requirements and urgency.
C15_AcknowledgmentShowsTheRecord ==
    (last.op = "handleMessage" /\ replyAttempts(last.trace, "request recorded") # <<>>) =>
        LET shown == replyAttempts(last.trace, "request recorded")[1].b
        IN  /\ Len(db) = 1
            /\ shown.type = db[1].requestType
            /\ shown.propertyType = db[1].requirements.propertyType
            /\ shown.preferredLocations = db[1].requirements.preferredLocations
            /\ shown.additionalRequirements = db[1].requirements.additionalRequirements
            /\ shown.urgency = db[1].urgency

\* C16 (as claimed): one ingestion of a qualifying message with storage working
\* creates exactly one record, a listing or a request, never both and never
\* more than one.
C16_ExactlyOneRecord ==
    (ingested /\ qualifies(input.msg) /\ input.env.save = "ok") =>
        /\ Len(savesOf(last.trace)) = 1
        /\ Len(db) = 1
        /\ db[1].kind = (IF listingClassified(input.msg) THEN "listing" ELSE "request")

\* C17: a timer tick starts a sweep only when the transport is ready and no
\* sweep is running; in every other case it is a silent no-op: no state
\* changes, no status or error event is emitted and nothing is raised.
C17_TickIsGuarded ==
    [][last'.op = "tick" =>
          IF ready /\ ~(\E s \in Slots : active(s))
          THEN /\ isScanning'
               /\ Cardinality({s \in Slots : sweeps'[s].pc # "idle"}) = 1
               /\ ~last'.threw
          ELSE /\ UNCHANGED <<ready, scanInterval, isScanning, sweeps, db>>
               /\ last'.trace = <<>>
               /\ ~last'.threw]_vars

\* A tick fell into a running sweep of a ready transport and did nothing.
C17_Witness ==
    /\ last.op = "tick"
    /\ last.trace = <<>>
    /\ ready
    /\ isScanning
    /\ \E s \in Slots : sweeps[s].pc = "msgs"

\* C18: once stopPeriodicScan was called no timer tick happens any more, so
\* none starts a sweep; stopPeriodicScan itself touches no sweep: one that is
\* in flight keeps its position, goes on through its conversations, and
\* clears the running flag when it ends.
C18_StopHaltsTicksOnly ==
    /\ [][/\ ~scanInterval => (~scanInterval' /\ last'.op # "tick")
          /\ last'.op = "stopPeriodicScan" =>
                /\ ~scanInterval'
                /\ UNCHANGED <<ready, isScanning, sweeps, db>>
                /\ last'.trace = <<>>]_vars
    /\ [](~scanInterval /\ last.sweep.ended /\ last.op # "getChats" =>
             /\ last.sweep.scanned = last.sweep.total
             /\ ~isScanning)
    /\ (~scanInterval /\ isScanning) ~> ~isScanning

\* stopPeriodicScan was just called while a sweep is in the middle of a conversation.
C18_Witness ==
    /\ last.op = "stopPeriodicScan"
    /\ ~scanInterval
    /\ isScanning
    /\ \E s \in Slots : sweeps[s].pc = "msgs" /\ sweeps[s].idx < sweeps[s].total

\* The listings the query of the last findMatches returned.
selected(trace) ==
    LET finds == SelectSeq(trace, LAMBDA x : x.e = "find")
    IN  IF finds = <<>> THEN <<>> ELSE finds[1].b

\* C19 (as claimed): findMatches selects at most 5 listings, and every selected
\* listing has price <= maxPrice, the propertyType of the request, and a
\* location of which at least one preferred location is a substring, letter
\* case ignored.
C19_MatchesSatisfyTheRequest ==
    last.op = "findMatches" =>
        LET req == input.request.requirements
            sel == selected(last.trace)
        IN  /\ Len(sel) <= 5
            /\ \A i \in 1..Len(sel) :
                  /\ sel[i].price <= req.maxPrice
                  /\ sel[i].propertyType = req.propertyType
                  /\ \E j \in 1..Len(req.preferredLocations) :
                        includes(toLowerCase(sel[i].location),
                                 toLowerCase(req.preferredLocations[j]))

\* C20 (as claimed): findMatches triggers the chat broadcast if and only if
\* the selected match set is not empty.
C20_FanoutIffMatches ==
    last.op = "findMatches" =>
        (attemptsOf(last.trace) # <<>> <=> selected(last.trace) # <<>>)

\* The mails a trace attempted, delivered or not.
mailAttempts(trace) == SelectSeq(trace, LAMBDA x : x.e \in {"mail", "mailFail"})

\* C21: findMatches sends an email exactly when the match set is not empty and
\* the contact of the requester holds "@": then one mail goes to that contact
\* (delivered when the mail transport works); with an empty match set or a
\* contact without "@" no mail is sent.
C21_MailIffMatchesAndAddress ==
    last.op = "findMatches" =>
        LET contact == input.request.requesterInfo.contact
            mails   == mailAttempts(last.trace)
            due     == selected(last.trace) # <<>> /\ "@" \in {contact[i] : i \in 1..Len(contact)}
        IN  /\ Len(mails) = (IF due THEN 1 ELSE 0)
            /\ \A i \in 1..Len(mails) : mails[i].a = contact
            /\ (due /\ input.menv.mail = "ok") => mails[1].e = "mail"

\* Matches were found for a requester with a mail address, and the mail was delivered.
C21_Witness ==
    /\ last.op = "findMatches"
    /\ Len(selected(last.trace)) >= 2
    /\ input.request.requesterInfo.contact = emailContact
    /\ \E i \in 1..Len(last.trace) : last.trace[i].e = "mail"

\* C22: the stored description of a listing is the body itself when the body
\* has at most 16,000 characters, and otherwise exactly its first 16,000
\* characters followed by the truncation marker, on every ingestion of a chat
\* message (real-time handling and sweep).
C22_DescriptionIsCapped ==
    (ingested /\ input.kind = "listing") =>
        /\ Len(db) = 1
        /\ db[1].description =
              (IF Len(input.msg.body) <= 16000 THEN input.msg.body
               ELSE SubSeq(input.msg.body, 1, 16000)
                    \o <<".",".","."," ","(","t","r","u","n","c","a","t","e","d",")">>)

\* A body of 20,000 characters was ingested and stored as 16,000 characters and the marker.
C22_Witness ==
    /\ last.op = "handleMessage"
    /\ input.kind = "listing"
    /\ Len(input.msg.body) = 20000
    /\ Len(db) = 1
    /\ Len(db[1].description) = 16015

\* C23 (as claimed): the attachment is kept as the first image of the listing
\* exactly when it was downloaded and its decoded size is at most 5,242,880
\* bytes; when it is larger or its download fails the listing is saved all the
\* same, with no image.
C23_ImageKeptIffWithinLimit ==
    (ingested /\ input.kind = "listing") =>
        LET md == input.env.media
        IN  /\ Len(db) = 1
            /\ db[1].images =
                  (IF md.has /\ md.ok /\ md.size <= 5242880 THEN <<md.size>> ELSE <<>>)

\* --- extractLocation ----------------------------------------------------------
MaxLocationFrags == 2   \* fragments a text holding a location is made of

LocationFragments == {
    <<"i","n"," ">>, <<"a","t"," ">>, <<"l","o","c","a","t","e","d"," ">>,
    <<"L","e","k","k","i">>, <<","," ">>, <<"P","l","a","i","n"," ">>,
    <<"f","l","a","t"," ">>, <<"N","e","a","r"," "," ">> }

greatDeal == <<"g","r","e","a","t"," ","d","e","a","l","!">>

furnishedApartment ==
    <<"2"," ","b","e","d"," ","a","p","a","r","t","m","e","n","t"," ",
      "l","o","c","a","t","e","d"," ","L","e","k","k","i"," ","P","h","a","s","e"," ","1",
      ","," ","f","u","l","l","y"," ","f","u","r","n","i","s","h","e","d">>

LocationTexts ==
    {greatDeal, furnishedApartment}
    \cup UNION {{concat(fs) : fs \in [1..n -> LocationFragments]} :
                    n \in 0..MaxLocationFrags}

InitLocation == MachineInit /\ input \in {[kind |-> "location", text |-> t] : t \in LocationTexts}

ExtractLocation ==
    /\ input.kind = "location"
    /\ last.op = "init"
    /\ last' = Last("extractLocation",
                    Done(<<Eff("return", "extractLocation", extractLocation(input.text))>>),
                    NoSweep)
    /\ UNCHANGED <<ready, scanInterval, isScanning, sweeps, db, input>>

NextLocation == ExtractLocation

SpecLocation == InitLocation /\ [][NextLocation]_vars

\* --- initializeWithRetry ------------------------------------------------------
\* The call made by initialize(): input holds where it stands.
\*   i       the loop variable
\*   pc      "attempt"  client.initialize() of attempt i + 1 is pending
\*           "delay"    the 5-second timer is pending
\*           "returned" the function returned
\*           "thrown"   the function threw: its promise is rejected
\*   events  the attempts and delays so far, in order
\*   reconnect  where the handler of 'disconnected' stands: "idle", "delay"
\*           (its 5-second timer is pending) or "initialize" (destroy() and
\*           client.initialize() are pending)
retries == 3            \* initializeWithRetry(retries = 3)
retryDelay == 5000      \* setTimeout(resolve, 5000)

Attempt(n, ok) == [e |-> "initialize", n |-> n, ok |-> ok]
Delay(ms) == [e |-> "delay", n |-> ms, ok |-> TRUE]

delaysAfterEveryFailure(i) == TRUE

\* if (i < retries - 1)
delaysBeforeRetry(i) == i < retries - 1

\* i++ and the test of the loop: the next attempt, or the throw after the loop
loopFrom(i) == IF i < retries THEN "attempt" ELSE "thrown"

InitInitialize ==
    /\ MachineInit
    /\ input = [kind |-> "initialize", i |-> 0, pc |-> "attempt", events |-> <<>>,
                reconnect |-> "idle"]

\* await this.client.initialize() resolves: return
InitializeResolves ==
    /\ input.kind = "initialize"
    /\ input.pc = "attempt"
    /\ input' = [input EXCEPT !.pc = "returned",
                              !.events = Append(@, Attempt(input.i + 1, TRUE))]
    /\ last' = Last("initializeWithRetry", Done(<<>>), NoSweep)
    /\ UNCHANGED <<ready, scanInterval, isScanning, sweeps, db>>

\* await this.client.initialize() rejects: the catch block
InitializeRejects ==
    /\ input.kind = "initialize"
    /\ input.pc = "attempt"
    /\ input' = [input EXCEPT
                    !.events = Append(@, Attempt(input.i + 1, FALSE)),
                    !.pc = IF delaysBeforeRetry(input.i) THEN "delay"
                           ELSE loopFrom(input.i + 1),
                    !.i  = IF delaysBeforeRetry(input.i) THEN @ ELSE @ + 1]
    /\ last' = Last("initializeWithRetry",
                    IF ~delaysBeforeRetry(input.i) /\ loopFrom(input.i + 1) = "thrown"
                    THEN Then(log("Initialization attempt failed"), Thrown(<<>>))
                    ELSE log("Initialization attempt failed"),
                    NoSweep)
    /\ UNCHANGED <<ready, scanInterval, isScanning, sweeps, db>>

\* the timer of the catch block fires
RetryDelayElapses ==
    /\ input.kind = "initialize"
    /\ input.pc = "delay"
    /\ input' = [input EXCEPT !.events = Append(@, Delay(retryDelay)),
                              !.pc = loopFrom(input.i + 1),
                              !.i = @ + 1]
    /\ last' = Last("initializeWithRetry",
                    IF loopFrom(input.i + 1) = "thrown" THEN Thrown(<<>>) ELSE Done(<<>>),
                    NoSweep)
    /\ UNCHANGED <<ready, scanInterval, isScanning, sweeps, db>>

\* client.on('disconnected') up to its timer; one such handler at a time
TransportDisconnected ==
    /\ input.kind = "initialize"
    /\ ready
    /\ input.reconnect = "idle"
    /\ ready' = FALSE
    /\ input' = [input EXCEPT !.reconnect = "delay"]
    /\ last' = Last("disconnected", emit("status", "WhatsApp disconnected"), NoSweep)
    /\ UNCHANGED <<scanInterval, isScanning, sweeps, db>>

ReconnectDelayElapses ==
    /\ input.kind = "initialize"
    /\ input.reconnect = "delay"
    /\ input' = [input EXCEPT !.reconnect = "initialize"]
    /\ last' = Last("reconnect", Done(<<>>), NoSweep)
    /\ UNCHANGED <<ready, scanInterval, isScanning, sweeps, db>>

\* await client.destroy(); await client.initialize() resolve
ReconnectResolves ==
    /\ input.kind = "initialize"
    /\ input.reconnect = "initialize"
    /\ input' = [input EXCEPT !.reconnect = "idle"]
    /\ last' = Last("reconnect", Done(<<>>), NoSweep)
    /\ UNCHANGED <<ready, scanInterval, isScanning, sweeps, db>>

\* one of them rejects: catch { this.emit('error', ...) }
ReconnectRejects ==
    /\ input.kind = "initialize"
    /\ input.reconnect = "initialize"
    /\ input' = [input EXCEPT !.reconnect = "idle"]
    /\ last' = Last("reconnect", emit("error", "Failed to reconnect"), NoSweep)
    /\ UNCHANGED <<ready, scanInterval, isScanning, sweeps, db>>

NextInitialize ==
    \/ InitializeResolves
    \/ InitializeRejects
    \/ RetryDelayElapses
    \/ ClientReady
    \/ TransportDisconnected
    \/ ReconnectDelayElapses
    \/ ReconnectResolves
    \/ ReconnectRejects
    \/ StopPeriodicScan

SpecInitialize == InitInitialize /\ [][NextInitialize]_vars

\* --- The same message ingested twice -----------------------------------------
smallImage == [has |-> TRUE, ok |-> TRUE, size |-> 1024]

\* What the collaborators do during one ingestion.
ReingestEnvs ==
    {[envOk EXCEPT !.ai = ai, !.ai2 = ai2, !.media = md, !.save = sv] :
        ai \in {"ok", "malformed", "fail"}, ai2 \in {"ok", "malformed"},
        md \in {noMedia, smallImage}, sv \in {"ok", "fail"}}

ReingestInputs ==
    {[kind |-> "reingest", msg |-> Msg(b, contactAllowed, chatPrivate, FALSE),
      first |-> e1, second |-> e2] :
        b \in {bodyListing, bodyRequest}, e1 \in ReingestEnvs, e2 \in ReingestEnvs}

InitReingest == MachineInit /\ input \in ReingestInputs

\* The environment of the next ingestion: the first one, then the second one.
reingestEnv == IF last.op = "init" THEN input.first ELSE input.second

ReingestEvent ==
    /\ input.kind = "reingest"
    /\ last.op \in {"init", "first handleMessage", "first scanMessage"}
    /\ \E r \in {handleMessage(input.msg, reingestEnv)} :
        /\ db' = db \o recordsOf(r.trace)
        /\ last' = Last(IF last.op = "init" THEN "first handleMessage"
                        ELSE "second handleMessage", r, NoSweep)
    /\ UNCHANGED <<ready, scanInterval, isScanning, sweeps, input>>

ReingestSweep ==
    /\ input.kind = "reingest"
    /\ last.op \in {"init", "first handleMessage", "first scanMessage"}
    /\ \E r \in {scanMessage(input.msg, reingestEnv)} :
        /\ db' = db \o recordsOf(r.trace)
        /\ last' = Last(IF last.op = "init" THEN "first scanMessage"
                        ELSE "second scanMessage", r, NoSweep)
    /\ UNCHANGED <<ready, scanInterval, isScanning, sweeps, input>>

NextReingest == ReingestEvent \/ ReingestSweep

SpecReingest == InitReingest /\ [][NextReingest]_vars

\* --- A message handled in real time and then met by sweeps --------------------
MaxEarlier  == 1    \* fetched messages that precede the message in its conversation
MaxResweeps == 2    \* sweeps over the conversation while the message is recent

envAnalysisMalformed == [envOk EXCEPT !.ai = "malformed"]

\* A fetched message and what the collaborators do while the loop handles it.
EarlierFetched ==
    {[msg |-> Msg(b, contactLocal, chatPrivate, old), env |-> e] :
        b \in {bodyListing, bodyRequest, bodyNone}, old \in {FALSE, TRUE},
        e \in {envOk, envSaveFail, envAnalysisMalformed}}

ResweepInputs ==
    {[kind |-> "resweep", msg |-> Msg(b, contactAllowed, chatPrivate, FALSE),
      event |-> e1, again |-> e2, earlier |-> ea] :
        b \in {bodyListing, bodyRequest}, e1 \in {envOk, envSaveFail},
        e2 \in {envOk, envSaveFail}, ea \in SeqsUpTo(EarlierFetched, MaxEarlier)}

\* for (const message of messages) { ... }: the loop of scanChat over the
\* fetched messages; a handler that throws ends it.
RECURSIVE scanMessages(_)
scanMessages(fetched) ==
    IF fetched = <<>> THEN Done(<<>>)
    ELSE Then(scanMessage(Head(fetched).msg, Head(fetched).env),
              scanMessages(Tail(fetched)))

\* WhatsAppBot.scanChat(chat), fetchMessages returning fetched
scanChat(chat, fetched) ==
    Then(emit("status", "Scanning chat"),
         TryCatch(
             Then(Done(<<Eff("fetch", "ok", "")>>),
             Then(scanMessages(fetched),
                  IF chat.isGroup THEN emit("status", "Processing group")
                  ELSE Done(<<>>))),
             log("Error processing chat")))

\* What fetchMessages returns for the conversation of the message: the
\* messages that precede it, then the message.
fetchedWith(in) == in.earlier \o <<[msg |-> in.msg, env |-> in.again]>>

InitResweep == MachineInit /\ input \in ResweepInputs

\* client.on('message'): the message arrives and is handled in real time.
ResweepEvent ==
    /\ input.kind = "resweep"
    /\ last.op = "init"
    /\ \E r \in {handleMessage(input.msg, input.event)} :
        /\ db' = db \o recordsOf(r.trace)
        /\ last' = Last("message", r, NoSweep)
    /\ UNCHANGED <<ready, scanInterval, isScanning, sweeps, input>>

\* A sweep reaches the conversation of the message, which is still recent.
ResweepScanChat ==
    /\ input.kind = "resweep"
    /\ last.op # "init"
    /\ last.sweep.scanned < MaxResweeps
    /\ \E r \in {scanChat(input.msg.chat, fetchedWith(input))} :
        /\ db' = db \o recordsOf(r.trace)
        /\ last' = Last("scanChat", r,
                        [NoSweep EXCEPT !.scanned = last.sweep.scanned + 1,
                                        !.chatEnded = TRUE])
    /\ UNCHANGED <<ready, scanInterval, isScanning, sweeps, input>>

NextResweep == ResweepEvent \/ ResweepScanChat

SpecResweep == InitResweep /\ [][NextResweep]_vars

\* --- The age test and the fetch limit of scanChat ------------------------------
MaxAged == 2        \* messages of a conversation whose ages are drawn
MaxHeld == 101      \* messages a conversation can hold

\* chat.fetchMessages({ limit: 100 })
fetchLimit == 100

\* 24 * 60 * 60 * 1000
maxAge == 24 * 60 * 60 * 1000

\* the age test if it also skipped a message of exactly 24 hours
olderThanADayInclusive(now, timestamp) == now - timestamp * 1000 >= maxAge

\* Date.now() - message.timestamp * 1000 > 24 * 60 * 60 * 1000
olderThanADay(now, timestamp) == now - timestamp * 1000 > maxAge

\* chat.fetchMessages({ limit: most }): the most recent messages of the
\* conversation, most at most (held lists them oldest first).
fetchMessages(held, most) ==
    IF Len(held) <= most THEN held
    ELSE SubSeq(held, Len(held) - most + 1, Len(held))

\* A message of the conversation as the loop meets it: m.at is Date.now() when
\* the loop examines it, m.env what the collaborators do while it is handled.
examined(m) ==
    Msg(m.body, contactAllowed, chatPrivate, olderThanADay(m.at, m.timestamp))

\* Messages whose age at examination lies around 24 hours; timestamps are in
\* seconds, the clock in milliseconds.
AgedMessages ==
    {[body |-> b, timestamp |-> a[1], at |-> a[1] * 1000 + maxAge + a[2], env |-> e] :
        b \in {bodyListing, bodyRequest, bodyNone},
        a \in {<<5, -1>>, <<5, 0>>, <<5, 1>>, <<6, 0>>},
        e \in {envOk, envSaveFail}}

\* the clock does not go back between two examinations
clockAdvances(held) == \A i \in 1..(Len(held) - 1) : held[i].at <= held[i + 1].at

\* A conversation of n fresh messages: a request, then listings.
freshMessages(n) ==
    [i \in 1..n |-> [body |-> IF i = 1 THEN bodyRequest ELSE bodyListing,
                     timestamp |-> 5, at |-> 5000 + i, env |-> envOk]]

AgeInputs ==
    {[kind |-> "age", held |-> h] :
        h \in {g \in SeqsUpTo(AgedMessages, MaxAged) : clockAdvances(g)}
              \cup {freshMessages(n) : n \in (fetchLimit - 1)..MaxHeld}}

InitAge == MachineInit /\ input \in AgeInputs

\* The scan of the conversation has ended; r is what its last step did, rest
\* the fetched messages the loop did not get to.
AgeChatEnds(op, r, rest) ==
    /\ sweeps' = [sweeps EXCEPT ![1] = Idle]
    /\ last' = Last(op, r, [NoSweep EXCEPT !.chatEnded = TRUE, !.dropped = rest])

\* scanChat of the conversation by a sweep, up to the return of
\* chat.fetchMessages({ limit: 100 })
AgeFetchReturn ==
    /\ input.kind = "age"
    /\ last.op = "init"
    /\ \E fetched \in {fetchMessages(input.held, fetchLimit)},
          r \in {Then(emit("status", "Scanning chat"), Done(<<Eff("fetch", "ok", "")>>))} :
        IF fetched = <<>>
        THEN AgeChatEnds("fetch", r, <<>>)
        ELSE /\ sweeps' = [sweeps EXCEPT ![1].pc = "msgs", ![1].remaining = Len(fetched)]
             /\ last' = Last("fetch", r, NoSweep)
    /\ UNCHANGED <<ready, scanInterval, isScanning, db, input>>

\* One iteration of the loop over the fetched messages, and, when it was the
\* last one or it threw, the rest of scanChat.
AgeScanMessage ==
    /\ input.kind = "age"
    /\ sweeps[1].pc = "msgs"
    /\ \E fetched \in {fetchMessages(input.held, fetchLimit)} :
       \E i \in {Len(fetched) - sweeps[1].remaining + 1} :
       \E r \in {scanMessage(examined(fetched[i]), fetched[i].env)} :
        /\ db' = db \o recordsOf(r.trace)
        /\ IF r.threw
           THEN AgeChatEnds("scanMessage", TryCatch(r, log("Error processing chat")),
                            SubSeq(fetched, i + 1, Len(fetched)))
           ELSE IF i = Len(fetched)
           THEN AgeChatEnds("scanMessage", r, <<>>)
           ELSE /\ sweeps' = [sweeps EXCEPT ![1].remaining = sweeps[1].remaining - 1]
                /\ last' = Last("scanMessage", r, NoSweep)
    /\ UNCHANGED <<ready, scanInterval, isScanning, input>>

NextAge == AgeFetchReturn \/ AgeScanMessage

SpecAge == InitAge /\ [][NextAge]_vars

\* --- The store under every operation of the pipeline -------------------------
MaxStore == 2       \* documents in the store

\* A stored listing and a stored request as the query of findMatches reads
\* them.  Prices are counted in hundredths; a document built by the pipeline
\* carries no propertyType.
asListingDocument(record) ==
    [title |-> record.description, price |-> record.price.v, propertyType |-> <<>>,
     location |-> record.location, contact |-> record.contact]

asRequestDocument(record) ==
    [requirements |-> [propertyType |-> record.requirements.propertyType,
                       maxPrice |-> 100 * record.requirements.maxPrice,
                       preferredLocations |-> record.requirements.preferredLocations],
     requesterInfo |-> [contact |-> record.contact]]

storedListings(store) ==
    LET ls == SelectSeq(store, LAMBDA r : r.kind = "listing")
    IN  [i \in 1..Len(ls) |-> asListingDocument(ls[i])]

scrapedPost ==
    [content |-> <<"W","a","n","t","e","d",":"," ","f","l","a","t">>,
     contact |-> <<"0","8","0","3">>]

StoreMsgs ==
    {Msg(bodyListing, contactAllowed, chatPrivate, FALSE),
     Msg(bodyRequest, contactAllowed, chatPrivate, FALSE)}

StoreEnvs ==
    {[envOk EXCEPT !.ai = ai, !.save = sv] :
        ai \in {"ok", "oversized"}, sv \in {"ok", "fail"}}

InitStore == MachineInit /\ input = [kind |-> "store"]

StoreEvent ==
    /\ input.kind = "store"
    /\ Len(db) < MaxStore
    /\ \E m \in StoreMsgs, env \in StoreEnvs :
        \E r \in {handleMessage(m, env)} :
            /\ db' = db \o recordsOf(r.trace)
            /\ last' = Last("handleMessage", r, NoSweep)
    /\ UNCHANGED <<ready, scanInterval, isScanning, sweeps, input>>

StoreSweep ==
    /\ input.kind = "store"
    /\ Len(db) < MaxStore
    /\ \E m \in StoreMsgs, env \in StoreEnvs :
        \E r \in {scanMessage(m, env)} :
            /\ db' = db \o recordsOf(r.trace)
            /\ last' = Last("scanMessage", r, NoSweep)
    /\ UNCHANGED <<ready, scanInterval, isScanning, sweeps, input>>

StoreScrapedListings ==
    /\ input.kind = "store"
    /\ Len(db) < MaxStore
    /\ \E r \in {scrapePropertyListings(<<scrapedListing(<<nairaSign, "2">>)>>, envOk)} :
        /\ db' = db \o recordsOf(r.trace)
        /\ last' = Last("scrapePropertyListings", r, NoSweep)
    /\ UNCHANGED <<ready, scanInterval, isScanning, sweeps, input>>

StoreScrapedRequests ==
    /\ input.kind = "store"
    /\ Len(db) < MaxStore
    /\ \E env \in StoreEnvs :
        \E r \in {scrapePropertyRequests(<<scrapedPost>>, env)} :
            /\ db' = db \o recordsOf(r.trace)
            /\ last' = Last("scrapePropertyRequests", r, NoSweep)
    /\ UNCHANGED <<ready, scanInterval, isScanning, sweeps, input>>

StoreFindMatches ==
    /\ input.kind = "store"
    /\ \E i \in 1..Len(db) :
        /\ db[i].kind = "request"
        /\ last' = Last("findMatches",
                        findMatches(asRequestDocument(db[i]), storedListings(db),
                                    [mail |-> "ok", fenv |-> fenvOk]),
                        NoSweep)
    /\ UNCHANGED <<ready, scanInterval, isScanning, sweeps, db, input>>

NextStore ==
    \/ StoreEvent
    \/ StoreSweep
    \/ StoreScrapedListings
    \/ StoreScrapedRequests
    \/ StoreFindMatches

SpecStore == InitStore /\ [][NextStore]_vars

\* The documents handed to save() by the last operation, stored or rejected.
handedToSave(trace) == SelectSeq(trace, LAMBDA x : x.e \in {"save", "saveFail"})

hasDigit(text) == \E i \in 1..Len(text) : isDigit(text[i])

\* C24 (as claimed): every price and every maxPrice handed to the store is a
\* number that is not negative, whether it comes from extractPrice on a chat
\* listing, from the analysis of a request, or from the scraped price text; and
\* when the text holds no price at all the price is exactly 0.
C24_PricesAreNonNegativeNumbers ==
    input.kind = "price" =>
        \A i \in 1..Len(handedToSave(last.trace)) :
            LET doc == handedToSave(last.trace)[i].b
            IN  IF doc.kind = "listing"
                THEN /\ ~doc.price.nan
                     /\ doc.price.v >= 0
                     /\ ~hasDigit(input.text) => doc.price = Number(0)
                ELSE doc.requirements.maxPrice >= 0

storedRequests == SelectSeq(db, LAMBDA r : r.kind = "request")

\* C25 (as claimed): every stored request, created by chat ingestion or by the
\* scrape, has at most 10 preferred locations, each of at most 100 characters,
\* whatever the analysis returned.
C25_LocationsAreCapped ==
    \A i \in 1..Len(storedRequests) :
        LET locations == storedRequests[i].requirements.preferredLocations
        IN  /\ Len(locations) <= 10
            /\ \A j \in 1..Len(locations) : Len(locations[j]) <= 100

\* C26: every request is stored with status 'active', and no operation of the
\* pipeline (real-time handling, sweep, scrape of listings and of requests,
\* matching) changes a stored document: after every step the documents stored
\* before are as they were, and all stored requests are 'active'.
C26_RequestsStayActive ==
    [][/\ Len(db') >= Len(db)
       /\ \A i \in 1..Len(db) : db'[i] = db[i]
       /\ \A i \in 1..Len(db') : db'[i].kind = "request" => db'[i].status = "active"]_vars

\* A request stored by the chat and one stored by the scrape, after a matching run.
C26_Witness ==
    /\ last.op = "findMatches"
    /\ Len(storedRequests) = 2
    /\ storedRequests[1].source = "whatsapp"
    /\ storedRequests[2].source = "facebook"
    /\ storedRequests[1].status = "active"
    /\ storedRequests[2].status = "active"

reingested == last.op \in {"second handleMessage", "second scanMessage"}

failedAttempt(ev, n) == ev.e = "initialize" /\ ~ev.ok /\ ev.n = n

\* C28: initializeWithRetry attempts client.initialize() at most 3 times and
\* never again after an attempt succeeded; the 5-second delay is waited after
\* the first and after the second failed attempt and at no other moment; the
\* function throws exactly when the third attempt has failed, and returns
\* exactly when an attempt succeeded.
C28_BoundedRetry ==
    input.kind = "initialize" =>
        LET ev == input.events
        IN  /\ \A k \in 1..Len(ev) :
                  /\ ev[k].e = "initialize" => (ev[k].n <= 3 /\ (ev[k].ok => k = Len(ev)))
                  /\ ev[k].e = "delay" =>
                        /\ ev[k].n = 5000
                        /\ k > 1
                        /\ failedAttempt(ev[k - 1], 1) \/ failedAttempt(ev[k - 1], 2)
                  /\ (k < Len(ev) /\ ev[k].e = "initialize") => ev[k + 1].e = "delay"
                  /\ (k < Len(ev) /\ ev[k].e = "delay") =>
                        (ev[k + 1].e = "initialize" /\ ev[k + 1].n = ev[k - 1].n + 1)
            /\ (ev # <<>> /\ ev[1].e = "initialize") => ev[1].n = 1
            /\ input.pc = "thrown" <=> (ev # <<>> /\ failedAttempt(ev[Len(ev)], 3))
            /\ input.pc = "returned" <=> (ev # <<>> /\ ev[Len(ev)].e = "initialize"
                                                   /\ ev[Len(ev)].ok)
            /\ (input.pc = "thrown" /\ last.op = "initializeWithRetry") => last.threw

\* Three failed attempts with a delay after the first and after the second:
\* the function has thrown.
C28_Witness ==
    /\ input.kind = "initialize"
    /\ input.pc = "thrown"
    /\ Len(input.events) = 5
    /\ failedAttempt(input.events[5], 3)
    /\ last.op = "initializeWithRetry"
    /\ last.threw

\* The preposition k stands at position i of the lower-cased text as a word.
prepositionAt(lower, i, k) ==
    /\ matchesAt(lower, i, k)
    /\ wordBoundary(lower, i - 1)
    /\ wordBoundary(lower, i + Len(k) - 1)

\* The location as stated: the trimmed text after the first preposition that
\* occurs as a word, up to the next comma or period; the sentinel when no
\* preposition occurs as a word.
statedLocation(text) ==
    LET lower == toLowerCase(text)
        at == {i \in 1..Len(text) :
                 \E k \in 1..Len(locationKeywords) : prepositionAt(lower, i, locationKeywords[k])}
    IN  IF at = {} THEN unknownLocation
        ELSE LET i == leftmost(at)
                 k == CHOOSE k \in 1..Len(locationKeywords) :
                          prepositionAt(lower, i, locationKeywords[k])
                 q == i + Len(locationKeywords[k])
             IN  trim(SubSeq(text, q, plainEnd(text, q)))

\* C29 (as claimed): extractLocation returns the trimmed text that follows the
\* first locative preposition up to the next comma or period, and the sentinel
\* "Unknown Location" for every text that holds none of the prepositions as a
\* word; "great deal!" gives the sentinel and the furnished apartment of the
\* example gives "Lekki Phase 1".
C29_LocationFollowsThePreposition ==
    last.op = "extractLocation" => last.trace[1].b = statedLocation(input.text)

\* The records of the store that the ingestion of message m gives.
recordsOfMessage(m) ==
    SelectSeq(db, LAMBDA d : d.contact = m.contact.user
                             /\ d.description = truncateMessage(m.body))

broadcastOfMessage(m) ==
    IF isPropertyListing(toLowerCase(m.body)) THEN listingNotification(m)
    ELSE requestNotification(m)

broadcastsOfMessage(trace, m) ==
    SelectSeq(trace, LAMBDA x : x.e = "send"
                                /\ x.b = truncateMessage(broadcastOfMessage(m)))

\* The message was stored and broadcast when it arrived, and each sweep since
\* met it with the store and the transport answering.
handledInRealTime ==
    /\ input.kind = "resweep"
    /\ last.op = "scanChat"
    /\ input.event = envOk
    /\ input.again = envOk

\* C30 (as claimed): a qualifying message that was handled in real time and is
\* still recent when sweeps scan its conversation is ingested again by each of
\* them: after n sweeps the store holds 1 + n records of the message, and the
\* last sweep sent its broadcast once more to every destination.
C30_EverySweepIngestsAgain ==
    handledInRealTime =>
        /\ Len(recordsOfMessage(input.msg)) = 1 + last.sweep.scanned
        /\ Len(broadcastsOfMessage(last.trace, input.msg))
               = Cardinality(broadcastDests(input.again.fenv))

\* The sweep of slot s is inside scanChat of conversation c.
sweepScans(s, c) == sweeps[s].pc \in {"fetch", "msgs"} /\ sweeps[s].idx = c

\* The scan started by a group_join event is inside scanChat of conversation c.
joinScans(c) == input.kind = "join" /\ input.pc \in {"fetch", "msgs"} /\ input.chat = c

\* C31 (as claimed): under every interleaving of timer ticks, manual scans and
\* transport events, group_join included, no conversation is inside scanChat
\* of two scans at the same time.
C31_NoConversationScannedTwiceAtOnce ==
    \A c \in 1..MaxChats :
        /\ \A s, t \in Slots : (sweepScans(s, c) /\ sweepScans(t, c)) => s = t
        /\ \A s \in Slots : ~(sweepScans(s, c) /\ joinScans(c))

progressOf(trace) == SelectSeq(trace, LAMBDA x : x.e = "emit" /\ x.a = "progress")

\* q is x / y rounded to the nearest integer, a half going up (Math.round)
isRounded(q, x, y) == (2 * q - 1) * y <= 2 * x /\ 2 * x < (2 * q + 1) * y

\* C32: a step of a sweep emits a progress event exactly when it ends the scan
\* of a conversation, and then one only; the event of the k-th conversation
\* carries total = T, current = k (so 1, 2, ..., T in order, never above T) and
\* percentage = round(k / T * 100); a sweep over T > 0 conversations completes
\* having counted as processed every conversation it emitted progress for.
C32_ProgressAfterEachConversation ==
    LET w == last.sweep
        events == progressOf(last.trace)
    IN  /\ Len(events) = (IF w.chatEnded THEN 1 ELSE 0)
        /\ w.chatEnded =>
              /\ events[1].b.total = w.total
              /\ events[1].b.current = w.scanned
              /\ events[1].b.current \in 1..w.total
              /\ isRounded(events[1].b.percentage, 100 * w.scanned, w.total)
              /\ w.processed = w.scanned
        /\ (w.ended /\ w.total > 0) =>
              /\ w.chatEnded
              /\ w.processed = w.total
              /\ emitted(last.trace, "status", "Scan completed")

\* A sweep over two conversations has just ended the scan of the first one,
\* which failed.
C32_Witness ==
    /\ last.sweep.chatEnded
    /\ ~last.sweep.ended
    /\ last.sweep.total = 2
    /\ last.sweep.failedAt = 1
    /\ Len(progressOf(last.trace)) = 1
    /\ progressOf(last.trace)[1].b = [total |-> 2, current |-> 1, percentage |-> 50]

\* The handlers a trace shows to have started, in order.
startedOf(trace) ==
    LET starts == SelectSeq(trace, LAMBDA x :
                     x.e = "emit" /\ x.a = "status"
                     /\ x.b \in {"Processing property listing...",
                                 "Processing property request..."})
    IN  [i \in 1..Len(starts) |->
            IF starts[i].b = "Processing property listing..." THEN "listing"
            ELSE "request"]

kindOf(body) ==
    IF isPropertyListing(toLowerCase(body)) THEN "listing"
    ELSE IF isPropertyRequest(toLowerCase(body)) THEN "request"
    ELSE "none"

\* The up to 100 most recent messages of the conversation.
mostRecent100(held) ==
    [i \in 1..(IF Len(held) < 100 THEN Len(held) ELSE 100) |->
        held[i + (IF Len(held) < 100 THEN 0 ELSE Len(held) - 100)]]

\* The message is at most 24 hours old when the loop examines it.
atMost24Hours(m) == m.at - 1000 * m.timestamp <= 86400000

\* The place, among the fetched messages, of the one the last step examined.
examinedIndex ==
    IF last.sweep.chatEnded
    THEN Len(mostRecent100(input.held)) - Len(last.sweep.dropped)
    ELSE Len(mostRecent100(input.held)) - sweeps[1].remaining

\* The message classifies and is at most 24 hours old when examined.
due(m) == atMost24Hours(m) /\ kindOf(m.body) # "none"

\* C33: a message that the loop of scanChat examines is ingested if and only
\* if it classifies and is at most 24 hours old at that moment (exactly 24
\* hours included), an older one leaves no effect at all, the store holds the
\* records of exactly the ingested messages so far, and the messages examined
\* are among the 100 most recent ones of the conversation, 100 at most.
C33_IngestedIffAtMost24HoursOld ==
    (input.kind = "age" /\ last.op = "scanMessage") =>
        LET f == mostRecent100(input.held)
            i == examinedIndex
            stored == SelectSeq([j \in 1..i |-> f[j]],
                                LAMBDA m : due(m) /\ m.env.save = "ok")
        IN  /\ i \in 1..100
            /\ i <= Len(f)
            /\ startedOf(last.trace) = (IF due(f[i]) THEN <<kindOf(f[i].body)>> ELSE <<>>)
            /\ ~atMost24Hours(f[i]) => last.trace = <<>>
            /\ [j \in 1..Len(db) |-> db[j].kind] = [j \in 1..Len(stored) |-> kindOf(stored[j].body)]

\* A conversation of two listings: the first one is a millisecond past 24 hours
\* when examined and skipped, the second one exactly 24 hours old and stored.
C33_Witness ==
    /\ input.kind = "age"
    /\ last.op = "scanMessage"
    /\ last.sweep.chatEnded
    /\ Len(input.held) = 2
    /\ input.held[1].body = bodyListing /\ ~atMost24Hours(input.held[1])
    /\ input.held[2].body = bodyListing
    /\ input.held[2].at - 1000 * input.held[2].timestamp = 86400000
    /\ Len(db) = 1
    /\ startedOf(last.trace) = <<"listing">>


\* The notification of the ingested message with its body as it was received.
rendered ==
    notificationHead(IF listingClassified(input.msg) THEN "listing" ELSE "request",
                     input.msg.contact) \o input.msg.body

\* the text ends with the marker and holds it nowhere else
endsWithOneMarker(text) ==
    \A i \in 1..(Len(text) - 14) :
        (SubSeq(text, i, i + 14) =
            <<".",".","."," ","(","t","r","u","n","c","a","t","e","d",")">>)
        <=> (i = Len(text) - 14)

\* C34: truncating a truncated text changes nothing, and every text that a
\* broadcast delivers, in real time or in a sweep, is the rendered message
\* itself when that has at most 16,000 characters and otherwise its first
\* 16,000 characters followed by the truncation marker, once, also when the
\* body of the message was longer than 16,000 characters and had been
\* truncated before it was embedded.
C34_TruncationIdempotentAndBounding ==
    /\ (input.kind = "truncate" /\ last.op = "truncateMessage") =>
            last.trace[1].b = last.trace[1].a
    /\ (input.kind = "broadcast" /\ ingested) =>
            \A i \in 1..Len(sendsOf(last.trace)) :
                LET text == sendsOf(last.trace)[i].b
                IN  IF Len(rendered) <= 16000
                    THEN text = rendered
                    ELSE /\ Len(text) = 16015
                         /\ SubSeq(text, 1, 16000) = SubSeq(rendered, 1, 16000)
                         /\ endsWithOneMarker(text)

\* A listing of 20,000 characters was broadcast: its body was truncated before
\* it was embedded, and the notification delivered ends with one marker.
C34_Witness ==
    /\ input.kind = "broadcast"
    /\ last.op = "handleMessage"
    /\ Len(input.msg.body) = 20000
    /\ listingClassified(input.msg)
    /\ Len(sendsOf(last.trace)) >= 1
    /\ Len(sendsOf(last.trace)[1].b) = 16015

\* A text of more than 16,000 characters was truncated, and truncated again.
C34_WitnessTwice ==
    /\ input.kind = "truncate"
    /\ last.op = "truncateMessage"
    /\ Len(input.text) = 16001
    /\ Len(last.trace[1].a) = 16015
    /\ last.trace[1].b = last.trace[1].a


\* An effect of the broadcast: a message to an allowed number or group, sent
\* or failed, or the listing of the chats between the two.
isBroadcastEffect(x) == x.e \in {"send", "sendFail", "getChats"}

isAcknowledgment(x) ==
    x.e \in {"reply", "replyFail"} /\ x.a \in {"listing saved", "request recorded"}

\* C35: in the handling of a message every effect of the broadcast comes after
\* the successful save of its record, the success acknowledgment is sent after
\* the save and after every effect of the broadcast, and when the save failed
\* there is no effect of the broadcast.
C35_SaveThenBroadcastThenAcknowledge ==
    (input.kind = "ingest" /\ ingested) =>
        LET t == last.trace
        IN  /\ \A i \in 1..Len(t) :
                  (isBroadcastEffect(t[i]) \/ isAcknowledgment(t[i])) =>
                      \E j \in 1..(i - 1) : t[j].e = "save"
            /\ \A i \in 1..Len(t) : \A k \in 1..Len(t) :
                  (isAcknowledgment(t[i]) /\ isBroadcastEffect(t[k])) => k < i
            /\ (\E j \in 1..Len(t) : t[j].e = "saveFail") =>
                  \A i \in 1..Len(t) : ~isBroadcastEffect(t[i])

\* A listing was saved, broadcast to a number and a group, and acknowledged.
C35_Witness ==
    /\ input.kind = "ingest"
    /\ last.op = "handleMessage"
    /\ \E j \in 1..Len(last.trace) : last.trace[j].e = "save"
    /\ Len(sendsOf(last.trace)) >= 2
    /\ \E i \in 1..Len(last.trace) :
          /\ isAcknowledgment(last.trace[i])
          /\ last.trace[i].e = "reply"
          /\ \E k \in 1..(i - 1) : last.trace[k].e = "send"

\* The save of a record failed and nothing was broadcast.
C35_WitnessSaveFailed ==
    /\ input.kind = "ingest"
    /\ ingested
    /\ \E j \in 1..Len(last.trace) : last.trace[j].e = "saveFail"
    /\ sendsOf(last.trace) = <<>>


\* C36: the handling of a message in real time delivers at most one reply to
\* its sender, the acknowledgment or the apology, and attempts no reply at all
\* when the sender is authorized neither by number nor by group.
C36_AtMostOneReplyDelivered ==
    (input.kind = "reply" /\ last.op = "handleMessage") =>
        /\ Len(repliesOf(last.trace)) <= 1
        /\ ~isAuthorized(input.msg) =>
              \A i \in 1..Len(last.trace) : last.trace[i].e \notin {"reply", "replyFail"}

\* The acknowledgment of a saved record was rejected by the transport and the
\* apology was delivered: the one reply the sender got.
C36_Witness ==
    /\ input.kind = "reply"
    /\ last.op = "handleMessage"
    /\ Len(db) = 1
    /\ \E i \in 1..Len(last.trace) :
          last.trace[i].e = "replyFail" /\ isAcknowledgment(last.trace[i])
    /\ Len(repliesOf(last.trace)) = 1
    /\ repliesOf(last.trace)[1].a = "apology"

\* A classified message of a sender who is not authorized was stored and
\* answered with nothing.
C36_WitnessUnauthorized ==
    /\ input.kind = "reply"
    /\ last.op = "handleMessage"
    /\ ~isAuthorized(input.msg)
    /\ Len(db) = 1
    /\ repliesOf(last.trace) = <<>>


\* C37: the ingestion of a message by the loop of scanChat, which a sweep and
\* a group-join scan both run, attempts no reply to the sender, whoever the
\* sender is and whether the ingestion succeeds or fails; its effects are
\* those of storing, broadcasting, logging and reporting.
C37_ScanNeverReplies ==
    (input.kind = "ingest" /\ last.op = "scanMessage") =>
        \A i \in 1..Len(last.trace) :
            last.trace[i].e \in {"save", "saveFail", "send", "sendFail", "getChats",
                                 "log", "warn", "emit", "ai", "media"}

\* The loop stored and broadcast the listing of an authorized sender, whom the
\* real-time handler would have answered.
C37_Witness ==
    /\ input.kind = "ingest"
    /\ last.op = "scanMessage"
    /\ isAuthorized(input.msg)
    /\ input.env.reply = "ok"
    /\ Len(db) = 1
    /\ Len(sendsOf(last.trace)) >= 1

\* The loop failed to store the request of an authorized sender.
C37_WitnessFailed ==
    /\ input.kind = "ingest"
    /\ last.op = "scanMessage"
    /\ isAuthorized(input.msg)
    /\ last.threw
    /\ \E i \in 1..Len(last.trace) : last.trace[i].e = "saveFail"


\* C38: startScan called while the transport is not ready throws the error
\* 'WhatsApp client not ready' and does nothing else: the flag keeps its
\* value, no sweep starts or advances, no chat is enumerated, nothing is
\* stored, and the readiness and the timer stay as they were.
C38_StartScanNotReadyOnlyFails ==
    [][(~ready /\ last'.op = "startScan") =>
          /\ last'.threw
          /\ last'.trace = <<Eff("throw", "WhatsApp client not ready", "")>>
          /\ UNCHANGED <<ready, scanInterval, isScanning, sweeps, db, input>>]_vars

\* startScan has failed on a transport that is not ready, the timer set by an
\* earlier 'ready' still running.
C38_Witness ==
    /\ ~ready
    /\ scanInterval
    /\ last.op = "startScan"
    /\ last.threw
    /\ last.trace = <<Eff("throw", "WhatsApp client not ready", "")>>
    /\ ~isScanning


\* An analysis that fits a stored listing: it names the property type p, a
\* ceiling above the listing's price and the listing's own location.
fittingAnalysis(listing, p) ==
    [validAnalysis EXCEPT !.propertyType = p,
                          !.maxPrice = listing.price.v \div 100 + 1,
                          !.preferredLocations = <<listing.location>>]

\* The request that chat ingestion builds from that analysis.
fittingRequest(listing, p) ==
    [kind         |-> "request",
     source       |-> "whatsapp",
     description  |-> bodyRequest,
     contact      |-> contactAllowed.user,
     analysis     |-> fittingAnalysis(listing, p),
     requestType  |-> fittingAnalysis(listing, p).type,
     requirements |-> requirementsOf(fittingAnalysis(listing, p)),
     urgency      |-> fittingAnalysis(listing, p).urgency,
     status       |-> "active"]

\* Property types an analysis may name; the empty one is not persisted.
PropertyTypes == {typeApartment, typeHouse, defaultAnalysis.propertyType, <<>>}

\* C39 (as claimed): for every listing that chat ingestion or the scrape has
\* stored there is a request the pipeline can persist, naming some property
\* type, a price ceiling and preferred locations, for which the query of
\* findMatches selects that listing.
C39_PipelineListingsCanBeMatched ==
    input.kind = "store" =>
        \A i \in 1..Len(db) :
            db[i].kind = "listing" =>
                \E p \in PropertyTypes :
                    /\ validates(fittingRequest(db[i], p))
                    /\ \E k \in 1..Len(find(asRequestDocument(fittingRequest(db[i], p)),
                                            storedListings(db))) :
                          find(asRequestDocument(fittingRequest(db[i], p)),
                               storedListings(db))[k] = asListingDocument(db[i])

====
